---------------------------- MODULE Spec2Model ----------------------------
(***************************************************************************)
(* A model of the checker pipeline of mizar-rs: the justification driver   *)
(* (checker.rs), the DNF builder (checker.rs), the quantifier opener and   *)
(* flex expander (checker.rs) and the class engine of the equalizer        *)
(* (equate.rs).  Each component has its own variables and its own          *)
(* specification; the variables of the other components are parked.        *)
(***************************************************************************)
EXTENDS Integers, Sequences, FiniteSets, TLC

VARIABLES
  \* ---- Checker::justify (checker.rs 27-50)
  pc,                 \* position of the driver
  fixed_var,          \* lc.fixed_var.len()
  infer_const,        \* lc.infer_const.len()
  term_cache,         \* number of open term_cache scopes
  recursive_round_up, \* g.recursive_round_up
  saved,              \* the locals infer_const, fixed_var of justify and the entry scope depth
  normal_form,        \* per conjunct: the stage that refutes it, or "none"
  idx,                \* index of the conjunct being processed (1-based)
  sat,                \* the ControlFlow of the closure: "break" | "continue" | "unset"
  stages,             \* per processed conjunct: the stages that ran, in order
  allocs,             \* variables and constants allocated since justify was entered
  \* ---- Atoms::normalize (checker.rs 359-485)
  n_pc,               \* "input" before the call, "done" after it
  n_f,                \* the formula handed to normalize
  n_pos,              \* the polarity handed to normalize
  n_atoms,            \* Atoms.0 after the call: the interned leaf formulas
  n_dnf,              \* the Dnf returned
  \* ---- Equalizer (equate.rs)
  e_pc,               \* position inside Equalizer::run
  e_input,            \* the input of the run (the conjunct, or the pending equations)
  e_terms,            \* Equalizer.terms: IdxVec<EqTermId, EqTerm>
  e_marks,            \* lc.marks: IdxVec<EqMarkId, (Term, EqTermId)>
  e_next,             \* Equalizer.next_eq_class
  e_infers,           \* Equalizer.infers: IdxVec<InferId, Option<EqMarkId>> (0 is None)
  e_clash,            \* Equalizer.clash
  e_eqs,              \* the pending equations (Equals)
  e_bas,              \* the bases: [pos |-> Atoms, neg |-> Atoms]
  e_ineqs,            \* Ineqs.ineqs of the pre-unification: Vec<(EqMarkId, EqMarkId)>
  \* ---- the formula passes of precheck: Expand::expand, open_quantifiers
  x_pc,               \* position inside the pass
  x_f,                \* the formula handed to the pass
  x_pos,              \* the polarity flag
  x_bound_var,        \* lc.bound_var.len() when the pass reaches the formula
  x_conjs,            \* the local vector conjs of the FlexAnd arm
  x_out,              \* the formula left in *f by the pass
  x_fixed_var,        \* variables pushed onto lc.fixed_var by the pass
  x_out2,             \* the formula left by a second application
  \* ---- Unifier::falsify and Unifier::resolution (unify.rs)
  u_pc,               \* "input" before the call, then the procedure that returned
  u_input,            \* the clauses of the normalized formula and the unifier's answers
  u_inst,             \* the instantiations compute_inst returned, per (atom, pos)
  u_result,           \* "Ok" | "Unsat" | "none"
  u_complementary,    \* the local vector complementary of resolution
  u_tried,            \* the candidates ResolventVerify went through
  \* ---- one call of a function without side effects on the global state
  p_pc,               \* "input" before the call, "done" after it
  p_args,             \* the arguments of the call
  p_ret               \* the value returned, "none" before the call

jvars == <<pc, fixed_var, infer_const, term_cache, recursive_round_up, saved,
           normal_form, idx, sat, stages, allocs>>
nvars == <<n_pc, n_f, n_pos, n_atoms, n_dnf>>

evars == <<e_pc, e_input, e_terms, e_marks, e_next, e_infers, e_clash, e_eqs, e_bas,
           e_ineqs>>

xvars == <<x_pc, x_f, x_pos, x_bound_var, x_conjs, x_out, x_fixed_var, x_out2>>

uvars == <<u_pc, u_input, u_inst, u_result, u_complementary, u_tried>>

pvars == <<p_pc, p_args, p_ret>>

notj == <<nvars, evars, xvars, uvars, pvars>>
notn == <<jvars, evars, xvars, uvars, pvars>>
note == <<jvars, nvars, xvars, uvars, pvars>>
notx == <<jvars, nvars, evars, uvars, pvars>>
notu == <<jvars, nvars, evars, xvars, pvars>>
notp == <<jvars, nvars, evars, xvars, uvars>>

vars == <<jvars, nvars, evars, xvars, uvars, pvars>>

-----------------------------------------------------------------------------
(* Bounds *)
MaxConj == 2     \* conjuncts in the DNF returned by precheck
MaxVars == 2     \* cap on fixed_var / infer_const / scope depth outside justify
MaxAlloc == 1    \* allocations one step may make
NLeaves == 2     \* distinct leaf formulas (atoms) a formula may mention
NClasses == 3    \* classes interned before the pending equations are united
MaxAtoms == 3    \* atoms a conjunct handed to the equalizer may constrain
MaxRight == 2    \* largest in-range numeral bound of a FlexAnd
FlexLimit == 100 \* the widest range expand_flex unfolds (checker.rs 168)
MaxArgs == 2     \* arguments of the outermost And
NConsts == 2     \* inference constants of a conjunct with functor terms
MaxFunctors == 2 \* functor terms the atoms of such a conjunct mention
MaxEqs == 1      \* equations among the terms of such a conjunct

-----------------------------------------------------------------------------
(* Parked components *)

NParked ==
  /\ n_pc = "off" /\ n_f = <<"true">> /\ n_pos = TRUE /\ n_atoms = <<>>
  /\ n_dnf = [t |-> TRUE, or |-> <<>>]

EParked ==
  /\ e_pc = "off" /\ e_input = <<>> /\ e_terms = <<>> /\ e_marks = <<>>
  /\ e_next = 0 /\ e_infers = <<>> /\ e_clash = FALSE /\ e_eqs = {}
  /\ e_bas = [pos |-> <<>>, neg |-> <<>>] /\ e_ineqs = <<>>

UParked ==
  /\ u_pc = "off" /\ u_input = <<>> /\ u_inst = <<>> /\ u_result = "none"
  /\ u_complementary = <<>> /\ u_tried = <<>>

PParked ==
  /\ p_pc = "off" /\ p_args = <<>> /\ p_ret = "none"

XParked ==
  /\ x_pc = "off" /\ x_f = <<"true">> /\ x_pos = TRUE /\ x_bound_var = 0
  /\ x_conjs = <<>> /\ x_out = <<"true">> /\ x_fixed_var = 0 /\ x_out2 = <<"true">>

-----------------------------------------------------------------------------
(* Checker::justify *)

Stage == {"equate", "pre_unification", "unify"}
Fate == Stage \cup {"none"}

RECURSIVE SeqsUpTo(_, _)
SeqsUpTo(S, n) ==
  IF n = 0 THEN {<<>>}
  ELSE LET shorter == SeqsUpTo(S, n - 1)
       IN shorter \cup {Append(s, x) : s \in {t \in shorter : Len(t) = n - 1}, x \in S}

Min(a, b) == IF a < b THEN a ELSE b

\* Vec::truncate: keeps the first n elements, no effect when n >= len
Truncate(len, n) == Min(len, n)

NoSaved == [infer_const |-> 0, fixed_var |-> 0, depth |-> 0]

JParked ==
  /\ pc = "off" /\ fixed_var = 0 /\ infer_const = 0 /\ term_cache = 0
  /\ recursive_round_up = FALSE /\ saved = NoSaved /\ normal_form = <<>>
  /\ idx = 0 /\ sat = "unset" /\ stages = <<>> /\ allocs = 0

InitJ ==
  /\ pc = "idle" /\ fixed_var = 0 /\ infer_const = 0 /\ term_cache = 0
  /\ recursive_round_up = FALSE /\ saved = NoSaved /\ normal_form = <<>>
  /\ idx = 0 /\ sat = "unset" /\ stages = <<>> /\ allocs = 0
  /\ NParked /\ EParked /\ XParked /\ UParked /\ PParked

\* The caller's context between justifications: variables are introduced,
\* constants interned, scopes opened by the surrounding analyzer.
EnvGrow ==
  /\ pc = "idle"
  /\ \E dv \in 0..MaxAlloc, dc \in 0..MaxAlloc, dd \in 0..MaxAlloc :
       /\ dv + dc + dd > 0
       /\ fixed_var + dv <= MaxVars /\ infer_const + dc <= MaxVars
       /\ term_cache + dd <= MaxVars
       /\ fixed_var' = fixed_var + dv
       /\ infer_const' = infer_const + dc
       /\ term_cache' = term_cache + dd
  /\ UNCHANGED <<pc, recursive_round_up, saved, normal_form, idx, sat, stages, allocs>>
  /\ UNCHANGED notj

\* checker.rs 28-35: open the scope, snapshot the lengths, precheck (which
\* opens quantifiers into fresh fixed variables and interns constants), set
\* the round-up flag, enter the loop.
JustifyEnter ==
  /\ pc = "idle"
  /\ \E nf \in SeqsUpTo(Fate, MaxConj), dv \in 0..MaxAlloc, dc \in 0..MaxAlloc :
       /\ term_cache' = term_cache + 1
       /\ saved' = [infer_const |-> infer_const, fixed_var |-> fixed_var,
                    depth |-> term_cache]
       /\ fixed_var' = fixed_var + dv
       /\ infer_const' = infer_const + dc
       /\ allocs' = dv + dc
       /\ normal_form' = nf
       /\ recursive_round_up' = TRUE
       /\ idx' = 1
       /\ stages' = <<>>
       /\ sat' = "unset"
       /\ pc' = IF Len(nf) >= 1 THEN "equate" ELSE "exit"
  /\ UNCHANGED notj

\* A stage whose Break does not leave the closure.
RunStage_NoReturn(s, next) ==
  /\ pc = s
  /\ \E dc \in 0..MaxAlloc :
       infer_const' = infer_const + dc /\ allocs' = allocs + dc
  /\ stages' = IF s = "equate" THEN Append(stages, <<s>>)
               ELSE [stages EXCEPT ![Len(stages)] = Append(@, s)]
  /\ IF next = "assert"
       THEN sat' = (IF normal_form[idx] = "none" THEN "continue" ELSE "break")
            /\ pc' = "assert"
       ELSE sat' = sat /\ pc' = next
  /\ UNCHANGED <<fixed_var, term_cache, recursive_round_up, saved, normal_form, idx>>
  /\ UNCHANGED notj

\* One stage of the closure at checker.rs 37-42.  `?` returns from the
\* closure on Break; otherwise the next stage runs.
RunStage(s, next) ==
  /\ pc = s
  /\ \E dc \in 0..MaxAlloc :
       infer_const' = infer_const + dc /\ allocs' = allocs + dc
  /\ stages' = IF s = "equate" THEN Append(stages, <<s>>)
               ELSE [stages EXCEPT ![Len(stages)] = Append(@, s)]
  /\ IF normal_form[idx] = s
       THEN sat' = "break" /\ pc' = "assert"
       ELSE IF next = "assert"
         THEN sat' = "continue" /\ pc' = "assert"
         ELSE sat' = sat /\ pc' = next
  /\ UNCHANGED <<fixed_var, term_cache, recursive_round_up, saved, normal_form, idx>>
  /\ UNCHANGED notj

Equate == RunStage("equate", "pre_unification")
PreUnification == RunStage("pre_unification", "unify")
Unify == RunStage("unify", "assert")

\* A driver that goes on to the next conjunct whatever the closure returned.
AssertBreak_Ignored ==
  /\ pc = "assert"
  /\ idx' = idx + 1
  /\ pc' = IF idx + 1 <= Len(normal_form) THEN "equate" ELSE "exit"
  /\ sat' = "unset"
  /\ UNCHANGED <<fixed_var, infer_const, term_cache, recursive_round_up, saved,
                 normal_form, stages, allocs>>
  /\ UNCHANGED notj

\* checker.rs 43: assert!(sat.is_break(), "failed to justify")
AssertBreak ==
  /\ pc = "assert"
  /\ IF sat = "break"
       THEN /\ idx' = idx + 1
            /\ pc' = IF idx + 1 <= Len(normal_form) THEN "equate" ELSE "exit"
       ELSE /\ idx' = idx
            /\ pc' = "panicked"
  /\ sat' = "unset"
  /\ UNCHANGED <<fixed_var, infer_const, term_cache, recursive_round_up, saved,
                 normal_form, stages, allocs>>
  /\ UNCHANGED notj

\* An exit that forgets to truncate infer_const.
JustifyExit_KeepsConsts ==
  /\ pc = "exit"
  /\ recursive_round_up' = FALSE
  /\ fixed_var' = Truncate(fixed_var, saved.fixed_var)
  /\ term_cache' = term_cache - 1
  /\ pc' = "returned"
  /\ UNCHANGED <<infer_const, saved, normal_form, idx, sat, stages, allocs>>
  /\ UNCHANGED notj

\* checker.rs 46-49
JustifyExit ==
  /\ pc = "exit"
  /\ recursive_round_up' = FALSE
  /\ fixed_var' = Truncate(fixed_var, saved.fixed_var)
  /\ infer_const' = Truncate(infer_const, saved.infer_const)
  /\ term_cache' = term_cache - 1
  /\ pc' = "returned"
  /\ UNCHANGED <<saved, normal_form, idx, sat, stages, allocs>>
  /\ UNCHANGED notj

\* The caller goes on to the next justification.
NextCall ==
  /\ pc = "returned"
  /\ pc' = "idle"
  /\ saved' = NoSaved /\ normal_form' = <<>> /\ idx' = 0 /\ stages' = <<>>
  /\ allocs' = 0
  /\ UNCHANGED <<fixed_var, infer_const, term_cache, recursive_round_up, sat>>
  /\ UNCHANGED notj

NextJ ==
  \/ EnvGrow \/ JustifyEnter \/ Equate \/ PreUnification \/ Unify
  \/ AssertBreak \/ JustifyExit \/ NextCall

SpecJustify == InitJ /\ [][NextJ]_vars

Refuted(i) == normal_form[i] # "none"

StageOrder == <<"equate", "pre_unification", "unify">>

-----------------------------------------------------------------------------
(* Conjunct, Dnf and Atoms::normalize (checker.rs 359-485) *)

\* Formulas: <<"atom", p>> (any leaf that is interned as an atom), <<"true">>,
\* <<"neg", f>>, <<"and", <<f1, ..., fn>>>>.
Leaves == {<<"atom", p>> : p \in 1..NLeaves} \cup {<<"true">>}

Negs(S) == {<<"neg", f>> : f \in S}
Ands(S, n) == {<<"and", a>> : a \in SeqsUpTo(S, n)}

Inner == Leaves \cup Negs(Leaves) \cup {<<"and", <<>>>>}
           \cup {<<"and", <<f>>>> : f \in Leaves}
           \cup {<<"and", <<f, g>>>> : f \in Leaves, g \in Leaves}
Formulas == Inner \cup Negs(Inner) \cup Ands(Inner, MaxArgs)

\* Conjunct::single
Single(a, pos) == a :> pos

\* Conjunct::weaker_than (checker.rs 386-389)
WeakerThan(self, other) ==
  /\ Cardinality(DOMAIN self) <= Cardinality(DOMAIN other)
  /\ \A a \in DOMAIN self : a \in DOMAIN other /\ other[a] = self[a]

\* Conjunct::mk_and (checker.rs 394-403): Ok unless an atom gets two signs
ConjMkAndOk(self, other) ==
  \A k \in DOMAIN self \cap DOMAIN other : self[k] = other[k]

ConjMkAnd(self, other) ==
  [k \in DOMAIN self \cup DOMAIN other |->
     IF k \in DOMAIN other THEN other[k] ELSE self[k]]

DnfTrue == [t |-> TRUE, or |-> <<>>]
DnfOr(v) == [t |-> FALSE, or |-> v]

\* Dnf::mk_bool (checker.rs 417-423)
MkBool(pos) == IF pos THEN DnfTrue ELSE DnfOr(<<>>)

RECURSIVE Retain(_, _)
\* the elements of `this` that are not weaker than conj, in order
Retain(this, conj) ==
  IF this = <<>> THEN <<>>
  ELSE IF WeakerThan(Head(this), conj) THEN Retain(Tail(this), conj)
       ELSE <<Head(this)>> \o Retain(Tail(this), conj)

RECURSIVE AbsorbFrom(_, _, _)
AbsorbFrom(this, conj, i) ==
  IF i > Len(this) THEN this
  ELSE IF WeakerThan(conj, this[i]) THEN this
  ELSE IF WeakerThan(this[i], conj)
    THEN SubSeq(this, 1, i - 1) \o <<conj>>
           \o Retain(SubSeq(this, i + 1, Len(this)), conj)
    ELSE AbsorbFrom(this, conj, i + 1)

\* An insert_and_absorb that appends without looking at what is there.
InsertAndAbsorb_Appends(this, conj) == Append(this, conj)

\* Dnf::insert_and_absorb (checker.rs 425-436)
InsertAndAbsorb(this, conj) == AbsorbFrom(this, conj, 1)

RECURSIVE InsertAll(_, _)
InsertAll(this, other) ==
  IF other = <<>> THEN this
  ELSE InsertAll(InsertAndAbsorb(this, Head(other)), Tail(other))

\* Dnf::mk_and (checker.rs 439-443)
DnfMkAnd(self, other) ==
  IF self.t THEN other
  ELSE IF other.t THEN self
  ELSE DnfOr(InsertAll(self.or, other.or))

RECURSIVE RetainMerged(_, _)
\* this.retain_mut(|conj1| conj1.mk_and(conj2).is_ok())
RetainMerged(this, conj2) ==
  IF this = <<>> THEN <<>>
  ELSE IF ConjMkAndOk(Head(this), conj2)
    THEN <<ConjMkAnd(Head(this), conj2)>> \o RetainMerged(Tail(this), conj2)
    ELSE RetainMerged(Tail(this), conj2)

RECURSIVE MergeOne(_, _)
MergeOne(conj1, other) ==
  IF other = <<>> THEN <<>>
  ELSE (IF ConjMkAndOk(conj1, Head(other))
          THEN <<ConjMkAnd(conj1, Head(other))>> ELSE <<>>)
       \o MergeOne(conj1, Tail(other))

RECURSIVE MergeAll(_, _)
MergeAll(this, other) ==
  IF this = <<>> THEN <<>>
  ELSE MergeOne(Head(this), other) \o MergeAll(Tail(this), other)

\* Dnf::mk_or (checker.rs 446-462)
DnfMkOr(self, other) ==
  IF self.t THEN self
  ELSE IF other.t THEN DnfTrue
  ELSE IF Len(other.or) = 1 THEN DnfOr(RetainMerged(self.or, other.or[1]))
  ELSE DnfOr(MergeAll(self.or, other.or))

\* Atoms::find / Atoms::insert (checker.rs 363-372)
AtomsFind(atoms, f) == {i \in 1..Len(atoms) : atoms[i] = f}
AtomsInsert(atoms, f) ==
  IF AtomsFind(atoms, f) # {}
    THEN [atoms |-> atoms, id |-> CHOOSE i \in AtomsFind(atoms, f) :
                                     \A j \in AtomsFind(atoms, f) : i <= j]
    ELSE [atoms |-> Append(atoms, f), id |-> Len(atoms) + 1]

RECURSIVE Normalize(_, _, _)
RECURSIVE NormalizeArgs(_, _, _, _)

\* the for_each of checker.rs 472 / 474, threading Atoms through the children
NormalizeArgs(atoms, args, pos, res) ==
  IF args = <<>> THEN [atoms |-> atoms, dnf |-> res]
  ELSE LET r == Normalize(atoms, Head(args), pos)
       IN NormalizeArgs(r.atoms, Tail(args), pos,
                        IF pos THEN DnfMkAnd(res, r.dnf) ELSE DnfMkOr(res, r.dnf))

\* Atoms::normalize (checker.rs 466-484)
Normalize(atoms, f, pos) ==
  CASE f[1] = "neg" -> Normalize(atoms, f[2], ~pos)
    [] f[1] = "and" -> NormalizeArgs(atoms, f[2], pos, MkBool(pos))
    [] f[1] = "true" -> [atoms |-> atoms, dnf |-> MkBool(pos)]
    [] OTHER -> LET a == AtomsInsert(atoms, f)
                IN [atoms |-> a.atoms, dnf |-> DnfOr(<<Single(a.id, pos)>>)]

InitN ==
  /\ n_pc = "input" /\ n_f \in Formulas /\ n_pos \in BOOLEAN
  /\ n_atoms = <<>> /\ n_dnf = DnfTrue
  /\ JParked /\ EParked /\ XParked /\ UParked /\ PParked

\* the call atoms.normalize(g, lc, check_f, pos) on a fresh Atoms (checker.rs 67-68)
NormalizeCall ==
  /\ n_pc = "input"
  /\ LET r == Normalize(<<>>, n_f, n_pos)
     IN n_atoms' = r.atoms /\ n_dnf' = r.dnf
  /\ n_pc' = "done"
  /\ UNCHANGED <<n_f, n_pos>>
  /\ UNCHANGED notn

NextN == NormalizeCall

SpecNormalize == InitN /\ [][NextN]_vars

\* The meaning of a Dnf: the valuations of the atoms that satisfy it.
Valuations == [1..NLeaves -> BOOLEAN]
Satisfies(v, conj) == \A a \in DOMAIN conj : a \in DOMAIN v /\ v[a] = conj[a]
Sem(dnf) ==
  IF dnf.t THEN Valuations
  ELSE {v \in Valuations : \E i \in 1..Len(dnf.or) : Satisfies(v, dnf.or[i])}

RECURSIVE ChildSems(_, _, _)
\* the meanings of the Dnfs normalize returns for the children, in order
ChildSems(atoms, args, pos) ==
  IF args = <<>> THEN <<>>
  ELSE LET r == Normalize(atoms, Head(args), pos)
       IN <<Sem(r.dnf)>> \o ChildSems(r.atoms, Tail(args), pos)

\* C3: for positive polarity the Dnf of And[f1..fn] is the consistent merge of
\* the children's Dnfs (it holds exactly when every child's Dnf holds), for
\* negative polarity it is their union (it holds when some child's Dnf holds).
C3_AndMergesChildren ==
  (n_pc = "done" /\ n_f[1] = "and") =>
    LET cs == ChildSems(<<>>, n_f[2], n_pos)
    IN IF n_pos
         THEN Sem(n_dnf) = {v \in Valuations : \A i \in 1..Len(cs) : v \in cs[i]}
         ELSE Sem(n_dnf) = {v \in Valuations : \E i \in 1..Len(cs) : v \in cs[i]}

\* every atom of c1 occurs in c2 with the same sign
Dominated(c1, c2) == \A a \in DOMAIN c1 : a \in DOMAIN c2 /\ c2[a] = c1[a]

-----------------------------------------------------------------------------
(* The class engine of the equalizer (equate.rs) *)

\* Attrs (types.rs): Inconsistent, or Consistent(sorted vec of Attr).  An Attr
\* is <<nr, pos>>; the attributes of the model take no arguments.
AttrsDefault == [ok |-> TRUE, set |-> {}]
Inconsistent == [ok |-> FALSE, set |-> {}]

\* Attrs::insert: the same attribute with the other sign makes the cluster
\* Inconsistent.
AttrsInsert(attrs, item) ==
  IF ~attrs.ok THEN attrs
  ELSE IF <<item[1], ~item[2]>> \in attrs.set THEN Inconsistent
  ELSE [ok |-> TRUE, set |-> attrs.set \cup {item}]

\* Attrs::enlarge_by: insert every attribute of `other`
AttrsEnlargeBy(attrs, other) ==
  IF ~attrs.ok \/ ~other.ok THEN Inconsistent
  ELSE IF \E a \in other.set : <<a[1], ~a[2]>> \in attrs.set THEN Inconsistent
  ELSE [ok |-> TRUE, set |-> attrs.set \cup other.set]

\* A try_insert that reports success whatever insert produced.
TryInsert_NoCheck(attrs, item) ==
  LET new == AttrsInsert(attrs, item)
  IN [attrs |-> new, unsat |-> FALSE, changed |-> new # attrs]

\* Attrs::try_insert (equate.rs 61-66)
TryInsert(attrs, item) ==
  LET new == AttrsInsert(attrs, item)
  IN [attrs |-> new, unsat |-> ~new.ok, changed |-> new.ok /\ new # attrs]

\* Attrs::try_enlarge_by (equate.rs 811-815)
TryEnlargeBy(attrs, other) ==
  LET new == AttrsEnlargeBy(attrs, other)
  IN [attrs |-> new, unsat |-> ~new.ok,
      changed |-> new.ok /\ Cardinality(new.set) # Cardinality(attrs.set)]

RECURSIVE TryInsertAll(_, _)
\* `for attr in attrs { sc.try_insert(attr)? }`, in the sorted order of the vec
TryInsertAll(attrs, items) ==
  IF items = {} THEN [attrs |-> attrs, unsat |-> FALSE]
  ELSE LET it == CHOOSE a \in items : \A b \in items :
                   a[1] < b[1] \/ (a[1] = b[1] /\ (a[2] = b[2] \/ b[2]))
           r == TryInsert(attrs, it)
       IN IF r.unsat THEN [attrs |-> r.attrs, unsat |-> TRUE]
          ELSE TryInsertAll(r.attrs, items \ {it})

\* Types: a radix (0 is Type::ANY) and the attributes of the upper cluster.
\* Mode 2 widens to mode 1, which carries attribute 1 and widens to ANY.
TypeAny == [radix |-> 0, attrs |-> {}]
TypeOf(r) == [radix |-> r, attrs |-> IF r = 1 THEN {<<1, TRUE>>} ELSE {}]
HasWidening(r) == r > 0
Widening(r) == TypeOf(r - 1)

InTyClass(etm, r) == \E i \in 1..Len(etm.ty_class) : etm.ty_class[i] = r

RECURSIVE InsertType(_, _)
\* Equalizer::insert_type (equate.rs 204-239) on the EqTerm etm, for mode types
InsertType(etm, new) ==
  IF InTyClass(etm, new.radix)
    THEN IF new.attrs \subseteq etm.supercluster.set
           THEN [etm |-> etm, unsat |-> FALSE]
           ELSE LET r == TryInsertAll(etm.supercluster, new.attrs)
                IN [etm |-> [etm EXCEPT !.supercluster = r.attrs], unsat |-> r.unsat]
    ELSE LET r == TryInsertAll(etm.supercluster, new.attrs)
             etm1 == [etm EXCEPT !.supercluster = r.attrs]
             etm2 == [etm1 EXCEPT !.ty_class = Append(@, new.radix)]
         IN IF r.unsat THEN [etm |-> etm1, unsat |-> TRUE]
            ELSE IF HasWidening(new.radix) THEN InsertType(etm2, Widening(new.radix))
            ELSE [etm |-> etm2, unsat |-> FALSE]

RECURSIVE InsertTypes(_, _)
InsertTypes(etm, radices) ==
  IF radices = <<>> THEN [etm |-> etm, unsat |-> FALSE]
  ELSE LET r == InsertType(etm, [radix |-> Head(radices), attrs |-> {}])
       IN IF r.unsat THEN r ELSE InsertTypes(r.etm, Tail(radices))

Max(a, b) == IF a > b THEN a ELSE b

\* Equalizer::new_eq_class (equate.rs 186-202): eq = [terms, marks, next]
NewEqClass(eq, tm) ==
  LET et == Len(eq.terms) + 1
      m == Len(eq.marks) + 1
  IN [terms |-> Append(eq.terms,
                  [id |-> eq.next, mark |-> m + 1, eq_class |-> <<m>>,
                   ty_class |-> <<0>>, supercluster |-> AttrsDefault, number |-> {}]),
      marks |-> eq.marks \o <<[term |-> tm, owner |-> et],
                              [term |-> <<"EqClass", eq.next>>, owner |-> et]>>,
      next |-> eq.next + 1]

\* the else branch of equate.rs 353-360: c is the equalizer after
\* new_eq_class, r the outcome of insert_type on the new class
YInferNew(eq, nr, c, r) ==
  LET et == Len(c.terms)
      grown == [i \in 1..Max(nr, Len(eq.infers)) |->
                  IF i = nr THEN c.terms[et].mark
                  ELSE IF i <= Len(eq.infers) THEN eq.infers[i] ELSE 0]
  IN [eq |-> [terms |-> [c.terms EXCEPT ![et] = r.etm], marks |-> c.marks,
              next |-> c.next, infers |-> grown],
      mark |-> c.terms[et].mark, unsat |-> r.unsat]

\* the new class with the number of the constant (equate.rs 354, 358)
NumberedClass(c, ic) == [c.terms[Len(c.terms)] EXCEPT !.number = ic.number]

\* Y::visit_term on Term::Infer(nr) (equate.rs 349-362), eq = [terms, marks,
\* next, infers]; ic is the Assignment of the constant: its type and number.
\* Returns the equalizer and the class marker the term is replaced by.
YInfer(eq, nr, ic) ==
  IF nr <= Len(eq.infers) /\ eq.infers[nr] # 0
    THEN [eq |-> eq, mark |-> eq.infers[nr], unsat |-> FALSE]
    ELSE YInferNew(eq, nr, NewEqClass(eq, <<"Infer", nr>>),
                   InsertType(NumberedClass(NewEqClass(eq, <<"Infer", nr>>), ic), ic.ty))

\* lc.marks[self.terms[x].mark].1
Canon(terms, marks, x) == marks[terms[x].mark].owner

RECURSIVE Retarget(_, _, _, _)
\* equate.rs 903-906
Retarget(terms, marks, ms, to) ==
  IF ms = <<>> THEN marks
  ELSE LET m == terms[marks[Head(ms)].owner].mark
       IN Retarget(terms, [marks EXCEPT ![m].owner = to], Tail(ms), to)

\* A union that compares the numbers but does not hand the number over.
UnionTerms_KeepsNumber(terms, marks, clash, x0, y0) ==
  LET x == Canon(terms, marks, x0)
      y == Canon(terms, marks, y0)
      from == Max(x, y)
      to == Min(x, y)
  IN IF x = y THEN [terms |-> terms, marks |-> marks, clash |-> clash, unsat |-> FALSE]
     ELSE IF terms[from].number # {} /\ terms[to].number # {}
             /\ terms[from].number # terms[to].number
       THEN [terms |-> terms, marks |-> marks, clash |-> TRUE, unsat |-> TRUE]
       ELSE [terms |-> [terms EXCEPT ![to].eq_class = @ \o terms[from].eq_class,
                                     ![from].eq_class = <<>>],
             marks |-> Retarget(terms, marks, terms[from].eq_class, to),
             clash |-> TRUE, unsat |-> FALSE]

\* A union that hands the number over without comparing it.
UnionTerms_NoNumberCheck(terms, marks, clash, x0, y0) ==
  LET x == Canon(terms, marks, x0)
      y == Canon(terms, marks, y0)
      from == Max(x, y)
      to == Min(x, y)
  IN IF x = y THEN [terms |-> terms, marks |-> marks, clash |-> clash, unsat |-> FALSE]
     ELSE [terms |-> [terms EXCEPT ![to].eq_class = @ \o terms[from].eq_class,
                                   ![to].number = IF terms[from].number # {}
                                                    THEN terms[from].number ELSE @,
                                   ![from].eq_class = <<>>],
           marks |-> Retarget(terms, marks, terms[from].eq_class, to),
           clash |-> TRUE, unsat |-> FALSE]

\* A union that moves the marks but leaves the class markers alone.
UnionTerms_NoRetarget(terms, marks, clash, x0, y0) ==
  LET x == Canon(terms, marks, x0)
      y == Canon(terms, marks, y0)
      from == Max(x, y)
      to == Min(x, y)
  IN IF x = y THEN [terms |-> terms, marks |-> marks, clash |-> clash, unsat |-> FALSE]
     ELSE [terms |-> [terms EXCEPT ![to].eq_class = @ \o terms[from].eq_class,
                                   ![to].number = @ \cup terms[from].number,
                                   ![from].eq_class = <<>>],
           marks |-> marks, clash |-> TRUE, unsat |-> FALSE]

\* A union that merges the class with the smaller id into the larger one.
UnionTerms_IntoLarger(terms, marks, clash, x0, y0) ==
  LET x == Canon(terms, marks, x0)
      y == Canon(terms, marks, y0)
      from == Min(x, y)
      to == Max(x, y)
  IN IF x = y THEN [terms |-> terms, marks |-> marks, clash |-> clash, unsat |-> FALSE]
     ELSE IF terms[from].number # {} /\ terms[to].number # {}
             /\ terms[from].number # terms[to].number
       THEN [terms |-> [terms EXCEPT ![to].number = terms[from].number],
             marks |-> marks, clash |-> TRUE, unsat |-> TRUE]
       ELSE [terms |-> [terms EXCEPT ![to].eq_class = @ \o terms[from].eq_class,
                                     ![to].number = @ \cup terms[from].number,
                                     ![from].eq_class = <<>>],
             marks |-> Retarget(terms, marks, terms[from].eq_class, to),
             clash |-> TRUE, unsat |-> FALSE]

\* Equalizer::union_terms (equate.rs 885-919)
UnionTerms(terms, marks, clash, x0, y0) ==
  LET x == Canon(terms, marks, x0)
      y == Canon(terms, marks, y0)
      from == Max(x, y)
      to == Min(x, y)
  IN IF x = y THEN [terms |-> terms, marks |-> marks, clash |-> clash, unsat |-> FALSE]
     ELSE
       LET n1 == terms[from].number
           t1 == IF n1 # {} THEN [terms EXCEPT ![to].number = n1] ELSE terms
       IN IF n1 # {} /\ terms[to].number # {} /\ terms[to].number # n1
            THEN [terms |-> t1, marks |-> marks, clash |-> TRUE, unsat |-> TRUE]
            ELSE
              LET marks2 == Retarget(t1, marks, t1[from].eq_class, to)
                  t2 == [t1 EXCEPT ![to].eq_class = @ \o t1[from].eq_class,
                                   ![from].eq_class = <<>>,
                                   ![from].supercluster = AttrsDefault]
                  r == TryInsertAll(t2[to].supercluster, t1[from].supercluster.set)
                  t3 == [t2 EXCEPT ![to].supercluster = r.attrs]
              IN IF r.unsat
                   THEN [terms |-> t3, marks |-> marks2, clash |-> TRUE, unsat |-> TRUE]
                   ELSE
                     LET q == InsertTypes(t3[to], t3[from].ty_class)
                         t4 == [t3 EXCEPT ![from].ty_class = <<>>, ![to] = q.etm]
                     IN [terms |-> t4, marks |-> marks2, clash |-> TRUE,
                         unsat |-> q.unsat]

RECURSIVE RenumIds(_, _, _, _)
\* equate.rs 1555-1561: fresh ids for the live classes, written into their markers
RenumIds(terms, marks, i, fresh) ==
  IF i > Len(terms) THEN [terms |-> terms, marks |-> marks]
  ELSE IF terms[i].eq_class # <<>>
    THEN RenumIds([terms EXCEPT ![i].id = fresh],
                  [marks EXCEPT ![terms[i].mark].term = <<"EqClass", fresh>>],
                  i + 1, fresh + 1)
    ELSE RenumIds(terms, marks, i + 1, fresh)

RECURSIVE RenumMarkers(_, _, _)
\* equate.rs 1562-1566: every class marker names the class it was merged into
RenumMarkers(terms, marks, i) ==
  IF i > Len(terms) THEN marks
  ELSE LET et == marks[terms[i].mark].owner
           ec == marks[terms[et].mark].term
       IN RenumMarkers(terms, [marks EXCEPT ![terms[i].mark].term = ec], i + 1)

\* RenumEqClasses (equate.rs 1554-1579); the attributes of the model have no
\* arguments, so the re-insertion of 1567-1579 rebuilds the same cluster
RenumEqClasses(terms, marks) ==
  LET a == RenumIds(terms, marks, 1, 0)
  IN [terms |-> a.terms, marks |-> RenumMarkers(a.terms, a.marks, 1)]

-----------------------------------------------------------------------------
(* Uniting the pending equations in any order *)

Numbers == {{}, {0}, {1}}       \* EqTerm.number: None, Some(0), Some(1)

Pairs(n) == {p \in (1..n) \X (1..n) : p[1] < p[2]}

InitU ==
  /\ e_pc = "intern"
  /\ e_input \in [eqs : SUBSET Pairs(NClasses), number : [1..NClasses -> Numbers]]
  /\ e_terms = <<>> /\ e_marks = <<>> /\ e_next = 0 /\ e_infers = <<>>
  /\ e_clash = FALSE /\ e_eqs = {} /\ e_bas = [pos |-> <<>>, neg |-> <<>>]
  /\ e_ineqs = <<>>
  /\ JParked /\ NParked /\ XParked /\ UParked /\ PParked

\* The y pass over a new Term::Infer: a new class that takes the number of
\* the inference constant, whose type is `set`
InternTerm ==
  /\ e_pc = "intern"
  /\ LET n == Len(e_terms) + 1
         r == YInfer([terms |-> e_terms, marks |-> e_marks, next |-> e_next,
                      infers |-> e_infers], n,
                     [ty |-> TypeAny, number |-> e_input.number[n]])
     IN /\ e_terms' = r.eq.terms
        /\ e_marks' = r.eq.marks
        /\ e_next' = r.eq.next
        /\ e_infers' = r.eq.infers
        /\ e_pc' = IF n = NClasses THEN "union" ELSE "intern"
        /\ e_eqs' = IF n = NClasses THEN e_input.eqs ELSE e_eqs
  /\ UNCHANGED <<e_input, e_clash, e_bas, e_ineqs, note>>

\* One iteration of the loop over the equations (equate.rs 1518-1543), taking
\* any pending equation
UnionStep ==
  /\ e_pc = "union"
  /\ \E p \in e_eqs :
       LET r == UnionTerms(e_terms, e_marks, e_clash, p[1], p[2])
       IN /\ e_terms' = r.terms
          /\ e_marks' = r.marks
          /\ e_clash' = r.clash
          /\ e_eqs' = e_eqs \ {p}
          /\ e_pc' = IF r.unsat THEN "unsat" ELSE "union"
  /\ UNCHANGED <<e_input, e_next, e_infers, e_bas, e_ineqs, note>>

\* RenumEqClasses once no equation is pending (equate.rs 1545-1579); with no
\* functor terms interned, identities() only clears the clash flag
RenumStep ==
  /\ e_pc = "union" /\ e_eqs = {}
  /\ LET r == RenumEqClasses(e_terms, e_marks)
     IN /\ e_terms' = r.terms
        /\ e_marks' = r.marks
  /\ e_clash' = FALSE
  /\ e_pc' = "done"
  /\ UNCHANGED <<e_input, e_next, e_infers, e_eqs, e_bas, e_ineqs, note>>

NextU == InternTerm \/ UnionStep \/ RenumStep

SpecUnion == InitU /\ [][NextU]_vars

Range(q) == {q[i] : i \in 1..Len(q)}
Live == {c \in 1..Len(e_terms) : e_terms[c].eq_class # <<>>}
ClassMarkers == {e_terms[c].mark : c \in 1..Len(e_terms)}

\* C5 as stated: after the run, every live class is named by its own class
\* marker, is the recorded owner of each of its marks, and no mark is owned by
\* a class that was merged away.
C5_MarksOwnedByClass ==
  e_pc = "done" =>
    /\ \A c \in Live :
         /\ e_marks[e_terms[c].mark].term = <<"EqClass", e_terms[c].id>>
         /\ \A m \in Range(e_terms[c].eq_class) : e_marks[m].owner = c
    /\ \A m \in 1..Len(e_marks) : e_marks[m].owner \in Live

\* C5, amended: after the run, every live class is named by its own class
\* marker; for each of its marks, the class marker of the mark's recorded owner
\* points at the class; and every class marker is owned by a live class.
C5_MarkersOwnedByClass ==
  e_pc = "done" =>
    /\ \A c \in Live :
         /\ e_marks[e_terms[c].mark].term = <<"EqClass", e_terms[c].id>>
         /\ \A m \in Range(e_terms[c].eq_class) :
              e_marks[e_terms[e_marks[m].owner].mark].owner = c
    /\ \A m \in ClassMarkers : e_marks[m].owner \in Live

C5_Witness ==
  /\ e_pc = "done"
  /\ Cardinality(Live) = 1
  /\ Len(e_terms) >= 3
  /\ e_input.eqs = {<<1, 2>>, <<2, 3>>}

RECURSIVE Component(_, _)
\* the classes connected to S by the equations
Component(S, eqs) ==
  LET T == S \cup {p[2] : p \in {q \in eqs : q[1] \in S}}
             \cup {p[1] : p \in {q \in eqs : q[2] \in S}}
  IN IF T = S THEN S ELSE Component(T, eqs)

Components == {Component({c}, e_input.eqs) : c \in 1..NClasses}

\* some component holds two classes with different numbers
NumberConflict ==
  \E K \in Components : \E a, b \in K :
    /\ e_input.number[a] # {} /\ e_input.number[b] # {}
    /\ e_input.number[a] # e_input.number[b]

\* term mark of the n-th interned class
TermMark(n) == 2 * n - 1

\* C7: whatever the order in which the pending equations are united, the
\* run ends Unsat exactly when some connected component of the equations
\* holds two different numbers, and otherwise ends with the partition of
\* the marks into the connected components.
C7_UnionOrderIndependent ==
  /\ e_pc = "unsat" => NumberConflict
  /\ e_pc = "done" =>
       /\ ~NumberConflict
       /\ {Range(e_terms[c].eq_class) : c \in Live}
            = {{TermMark(n) : n \in K} : K \in Components}

C7_Witness ==
  /\ e_pc = "done"
  /\ e_input.eqs = {<<1, 3>>, <<2, 3>>}
  /\ e_input.number[3] = {1} /\ e_input.number[1] = {}
  /\ Cardinality(Live) = 1

\* the union of the classes x and y (x # y) in a step of the loop: Unsat is
\* returned exactly when both numbers are set and differ, and a number set on
\* one side only is the number of the surviving class
NumbersMerged(x, y) ==
  /\ e_pc' = "unsat" <=>
       /\ e_terms[x].number # {} /\ e_terms[y].number # {}
       /\ e_terms[x].number # e_terms[y].number
  /\ e_pc' # "unsat" =>
       /\ e_terms'[Min(x, y)].eq_class # <<>>
       /\ e_terms'[Max(x, y)].eq_class = <<>>
       /\ e_terms'[Min(x, y)].number = e_terms[x].number \cup e_terms[y].number

\* C14: union_terms on two distinct classes returns Unsat if and only if both
\* carry a number and the numbers differ (superclusters are empty and types
\* are `set` here, so no other Unsat arises); when only one of them carries a
\* number, the surviving class carries it afterwards.
C14_UnionNumbers ==
  [][(e_pc = "union" /\ e_eqs' # e_eqs) =>
       LET p == CHOOSE q \in e_eqs : q \notin e_eqs'
           x == Canon(e_terms, e_marks, p[1])
           y == Canon(e_terms, e_marks, p[2])
       IN x # y => NumbersMerged(x, y)]_vars

\* class 2, numbered 1, was united into class 1, numbered 0: Unsat, after the
\* number of class 1 was replaced
C14_Witness ==
  /\ e_pc = "unsat"
  /\ e_input.eqs = {<<1, 2>>}
  /\ e_input.number[1] = {0} /\ e_input.number[2] = {1}
  /\ e_terms[1].number = {1}

-----------------------------------------------------------------------------
(* Equalizer::run on one conjunct *)

\* The environment of the run.  The requirements declare equals_to
\* (predicate 1), belongs_to (predicate 5) and empty (attribute 2), and nothing
\* else.  The constructor table gives predicate 2 the Asymmetry and
\* Irreflexivity properties, predicate 3 Connectedness, predicate 4
\* Reflexivity, and no property to predicates 1 and 5; arg1 and arg2 are the
\* two arguments; nothing is redefined, so adjust_pred returns its input.
\* Inference constants have type `set`, no number, and abbreviate local
\* constants, so that the seeding of equate.rs 1435-1510 adds no term.  One
\* conditional cluster: attribute 1 implies attribute 2.
PredProperties ==
  << {}, {"Asymmetry", "Irreflexivity"}, {"Connectedness"}, {"Reflexivity"}, {} >>
IsEqualsTo(nr) == nr = 1
IsBelongsTo(nr) == nr = 5
\* Attr::new0(empty, true) and Attr::new0(empty, false)
AttrEmpty == <<2, TRUE>>
AttrNonEmpty == <<2, FALSE>>
Ic == [ty |-> TypeAny, number |-> {}]
ConditionalClusters ==
  << [antecedent |-> {<<1, TRUE>>}, consequent |-> [ok |-> TRUE, set |-> {<<2, TRUE>>}]] >>

\* The atoms of the conjunct: <<"Attr", nr, term>>, <<"Is", term, radix>>,
\* <<"Pred", nr, arg1, arg2>> over the inference constants 1 and 2.
AtomUniverse ==
  << <<"Attr", 1, 1>>, <<"Attr", 1, 2>>, <<"Attr", 2, 1>>, <<"Attr", 2, 2>>,
     <<"Is", 1, 2>>, <<"Is", 2, 2>>,
     <<"Pred", 1, 1, 2>>, <<"Pred", 2, 1, 2>>, <<"Pred", 2, 2, 1>>,
     <<"Pred", 3, 1, 2>>,
     <<"Pred", 4, 1, 2>>, <<"Pred", 5, 1, 2>>, <<"Pred", 1, 2, 1>>,
     <<"Pred", 1, 1, 1>> >>

\* Conjunct<AtomId, bool> constraining the atoms D with the signs sg: conj[i]
\* is {} when atom i is not constrained
Conjunct(D, sg) == [i \in 1..Len(AtomUniverse) |-> IF i \in D THEN {sg[i]} ELSE {}]
AtomSets == {D \in SUBSET (1..Len(AtomUniverse)) : Cardinality(D) <= MaxAtoms}

\* Equals::insert (equate.rs 607-613)
EqualsInsert(eqs, et1, et2) ==
  IF et1 = et2 THEN eqs ELSE eqs \cup {<<Min(et1, et2), Max(et1, et2)>>}

BasPush(bas, pos, f) ==
  IF pos THEN [bas EXCEPT !.pos = Append(@, f)] ELSE [bas EXCEPT !.neg = Append(@, f)]

\* Formula::Is if pos (equate.rs 1393-1397); v is the interned term
ClassifyIs(st, v, et, ty) ==
  LET r == InsertType(v.eq.terms[et], ty)
  IN [st EXCEPT !.eq = [v.eq EXCEPT !.terms[et] = r.etm],
                !.unsat = v.unsat \/ r.unsat]

\* An Attr arm that keeps a negative attribute atom in the negative basis.
ClassifyAttr_NegToBasis(st, v, et, attr) ==
  IF attr[2]
    THEN [st EXCEPT !.eq = [v.eq EXCEPT !.terms[et].supercluster =
                                          TryInsert(@, attr).attrs],
                    !.unsat = v.unsat \/ TryInsert(v.eq.terms[et].supercluster, attr).unsat]
    ELSE [st EXCEPT !.eq = v.eq, !.unsat = v.unsat,
                    !.bas = BasPush(@, FALSE, <<"Attr", attr[1], v.mark>>)]

\* Formula::Attr (equate.rs 1398-1406); v is the interned subject
ClassifyAttr(st, v, et, attr) ==
  LET r == TryInsert(v.eq.terms[et].supercluster, attr)
  IN [st EXCEPT !.eq = [v.eq EXCEPT !.terms[et].supercluster = r.attrs],
                !.unsat = v.unsat \/ r.unsat]

\* Formula::Pred (equate.rs 1407-1420); v1 and v2 are the interned arguments
ClassifyPred(st, v1, v2, nr, pos) ==
  IF pos /\ IsEqualsTo(nr)
    THEN [st EXCEPT !.eq = v2.eq, !.unsat = v1.unsat \/ v2.unsat,
                    !.eqs = EqualsInsert(@, v2.eq.marks[v1.mark].owner,
                                            v2.eq.marks[v2.mark].owner)]
    ELSE [st EXCEPT !.eq = v2.eq, !.unsat = v1.unsat \/ v2.unsat,
                    !.bas = BasPush(@, pos, <<"Pred", nr, v1.mark, v2.mark>>)]

\* the other atoms (equate.rs 1418-1420): a negative Is
ClassifyOther(st, v, pos, radix) ==
  [st EXCEPT !.eq = v.eq, !.unsat = v.unsat,
             !.bas = BasPush(@, pos, <<"Is", v.mark, radix>>)]

OwnerOf(v) == v.eq.marks[v.mark].owner
SecondArg(v1, f) == YInfer(v1.eq, f[4], Ic)

\* the body of the loop of equate.rs 1391-1422 for atom f required to be pos;
\* st = [eq, eqs, bas, unsat]
ClassifyAtom(st, f, pos) ==
  CASE f[1] = "Is" /\ pos ->
         ClassifyIs(st, YInfer(st.eq, f[2], Ic), OwnerOf(YInfer(st.eq, f[2], Ic)),
                    TypeOf(f[3]))
    [] f[1] = "Is" /\ ~pos -> ClassifyOther(st, YInfer(st.eq, f[2], Ic), pos, f[3])
    [] f[1] = "Attr" ->
         ClassifyAttr(st, YInfer(st.eq, f[3], Ic),
                      Canon(YInfer(st.eq, f[3], Ic).eq.terms,
                            YInfer(st.eq, f[3], Ic).eq.marks,
                            OwnerOf(YInfer(st.eq, f[3], Ic))),
                      <<f[2], pos>>)
    [] f[1] = "Pred" ->
         ClassifyPred(st, YInfer(st.eq, f[3], Ic),
                      SecondArg(YInfer(st.eq, f[3], Ic), f), f[2], pos)

RECURSIVE ClassifyAtoms(_, _, _, _, _)
\* equate.rs 1388-1424: the positive atoms in AtomId order, then the negative
ClassifyAtoms(st, atoms, conj, i, pos) ==
  IF st.unsat THEN st
  ELSE IF i > Len(atoms)
    THEN IF pos THEN ClassifyAtoms(st, atoms, conj, 1, FALSE) ELSE st
  ELSE IF conj[i] = {pos}
    THEN ClassifyAtoms(ClassifyAtom(st, atoms[i], pos), atoms, conj, i + 1, pos)
  ELSE ClassifyAtoms(st, atoms, conj, i + 1, pos)

Swapped(f) == <<"Pred", f[2], f[4], f[3]>>

\* A symmetry augmentation that adds nothing.
AddSymm_Nothing(pos, neg, prop, i) == neg

RECURSIVE AddSymm(_, _, _, _)
\* Equalizer::add_symm (equate.rs 843-855), from the i-th atom of pos on
AddSymm(pos, neg, prop, i) ==
  IF i > Len(pos) THEN neg
  ELSE LET f == pos[i]
       IN IF f[1] = "Pred" /\ prop \in PredProperties[f[2]] /\ AtomsFind(neg, f) = {}
            THEN AddSymm(pos, AtomsInsert(neg, Swapped(f)).atoms, prop, i + 1)
            ELSE AddSymm(pos, neg, prop, i + 1)

\* EqMarks.eq_term on two marks: the same owner
EqMarks(marks, m1, m2) == marks[m1].owner = marks[m2].owner

\* A verification that skips the reflexivity check.
ContradictionVerify_NoRefl(terms, marks, bas) ==
  \E i \in 1..Len(bas.neg) :
    LET neg == bas.neg[i]
    IN \/ /\ neg[1] = "Pred"
          /\ \E j \in 1..Len(bas.pos) :
               LET pos == bas.pos[j]
               IN /\ pos[1] = "Pred" /\ pos[2] = neg[2]
                  /\ EqMarks(marks, pos[3], neg[3])
                  /\ EqMarks(marks, pos[4], neg[4])
       \/ /\ neg[1] = "Is"
          /\ InTyClass(terms[marks[neg[2]].owner], neg[3])

\* ContradictionVerify (equate.rs 1581-1614): TRUE when it raises Unsat
ContradictionVerify(terms, marks, bas) ==
  \E i \in 1..Len(bas.neg) :
    LET neg == bas.neg[i]
    IN \/ /\ neg[1] = "Pred"
          /\ \/ /\ "Reflexivity" \in PredProperties[neg[2]]
                /\ marks[neg[3]].owner = marks[neg[4]].owner
             \/ \E j \in 1..Len(bas.pos) :
                  LET pos == bas.pos[j]
                  IN /\ pos[1] = "Pred" /\ pos[2] = neg[2]
                     /\ EqMarks(marks, pos[3], neg[3])
                     /\ EqMarks(marks, pos[4], neg[4])
       \/ /\ neg[1] = "Is"
          /\ InTyClass(terms[marks[neg[2]].owner], neg[3])

RECURSIVE RoundUpOne(_, _)
\* the loop of equate.rs 1892-1916 on one class, with
\* round_up_one_supercluster (1363-1380): a cluster whose antecedent the class
\* satisfies instantiates to Dnf::True
RoundUpOne(etm, j) ==
  IF j > Len(ConditionalClusters) THEN [etm |-> etm, unsat |-> FALSE, added |-> FALSE]
  ELSE LET cl == ConditionalClusters[j]
           r == IF cl.antecedent \subseteq etm.supercluster.set
                  THEN TryEnlargeBy(etm.supercluster, cl.consequent)
                  ELSE [attrs |-> etm.supercluster, unsat |-> FALSE, changed |-> FALSE]
           etm1 == [etm EXCEPT !.supercluster = r.attrs]
       IN IF r.unsat THEN [etm |-> etm1, unsat |-> TRUE, added |-> FALSE]
          ELSE LET rest == RoundUpOne(etm1, j + 1)
               IN [rest EXCEPT !.added = @ \/ r.changed]

RECURSIVE RoundUpClass(_)
RoundUpClass(etm) ==
  LET r == RoundUpOne(etm, 1)
  IN IF r.unsat \/ ~r.added THEN r ELSE RoundUpClass(r.etm)

RECURSIVE RoundUp(_, _)
\* the worklist of equate.rs 1868-1925: every live class, in EqTermId order;
\* no class depends on another, so none is enqueued again
RoundUp(terms, i) ==
  IF i > Len(terms) THEN [terms |-> terms, unsat |-> FALSE]
  ELSE IF terms[i].eq_class = <<>> THEN RoundUp(terms, i + 1)
  ELSE LET r == RoundUpClass(terms[i])
           t1 == [terms EXCEPT ![i] = r.etm]
       IN IF r.unsat THEN [terms |-> t1, unsat |-> TRUE] ELSE RoundUp(t1, i + 1)

\* Equalizer::insert_non_attr0 (equate.rs 1269-1274) for the attribute empty
InsertNonAttr0(r, et1, et2) ==
  IF r.unsat \/ AttrEmpty \notin r.terms[et1].supercluster.set THEN r
  ELSE LET t == TryInsert(r.terms[et2].supercluster, AttrNonEmpty)
       IN [terms |-> [r.terms EXCEPT ![et2].supercluster = t.attrs], unsat |-> t.unsat]

\* Equalizer::nonempty_nonzero_of_ne (equate.rs 1276-1290); zero is not declared
NonemptyNonzeroOfNe(terms, et1, et2) ==
  InsertNonAttr0(InsertNonAttr0([terms |-> terms, unsat |-> FALSE], et1, et2), et2, et1)

RECURSIVE NeOfReflexive(_, _, _, _)
\* equate.rs 1616-1625: the negated reflexive predicates of the negative basis
NeOfReflexive(terms, marks, neg, i) ==
  IF i > Len(neg) THEN [terms |-> terms, unsat |-> FALSE]
  ELSE IF neg[i][1] = "Pred" /\ "Reflexivity" \in PredProperties[neg[i][2]]
    THEN LET r == NonemptyNonzeroOfNe(terms, marks[neg[i][3]].owner, marks[neg[i][4]].owner)
         IN IF r.unsat THEN r ELSE NeOfReflexive(r.terms, marks, neg, i + 1)
  ELSE NeOfReflexive(terms, marks, neg, i + 1)

\* A belongs_to arm that leaves the class of the second argument alone.
BelongsTo_NoInsert(supercluster) ==
  [attrs |-> supercluster, unsat |-> FALSE, changed |-> FALSE]

\* the belongs_to arm of the positive loop (equate.rs 1687-1701) on the
\* supercluster of the class of the second argument: A in B => B is non empty;
\* element is not declared
BelongsTo(supercluster) == TryInsert(supercluster, AttrNonEmpty)

RECURSIVE PosPass(_, _, _, _)
\* one pass of the positive loop (equate.rs 1632-1717); less_or_equal and
\* inclusion are not declared
PosPass(terms, marks, pos, i) ==
  IF i > Len(pos) THEN [terms |-> terms, unsat |-> FALSE, added |-> FALSE]
  ELSE IF pos[i][1] = "Pred" /\ IsBelongsTo(pos[i][2])
    THEN LET et2 == marks[pos[i][4]].owner
             t == BelongsTo(terms[et2].supercluster)
             terms1 == [terms EXCEPT ![et2].supercluster = t.attrs]
         IN IF t.unsat THEN [terms |-> terms1, unsat |-> TRUE, added |-> FALSE]
            ELSE LET rest == PosPass(terms1, marks, pos, i + 1)
                 IN [rest EXCEPT !.added = @ \/ t.changed]
  ELSE PosPass(terms, marks, pos, i + 1)

RECURSIVE PosLoop(_, _, _)
\* equate.rs 1627-1768: the passes repeat until one adds nothing; the element
\* transitivity pass (1725-1764) finds no Element type
PosLoop(terms, marks, pos) ==
  LET r == PosPass(terms, marks, pos, 1)
  IN IF r.unsat \/ ~r.added THEN r ELSE PosLoop(r.terms, marks, pos)

\* the negative loop (equate.rs 1770-1866): TRUE when it raises Unsat.  The
\* bases hold no Attr atom; the belongs_to arm needs element
NegLoop(terms, marks, bas) ==
  \E i \in 1..Len(bas.neg) :
    LET neg == bas.neg[i]
    IN \/ /\ neg[1] = "Pred"
          /\ \E j \in 1..Len(bas.pos) :
               LET pos == bas.pos[j]
               IN /\ pos[1] = "Pred" /\ pos[2] = neg[2]
                  /\ EqMarks(marks, pos[3], neg[3])
                  /\ EqMarks(marks, pos[4], neg[4])
       \/ /\ neg[1] = "Is"
          /\ InTyClass(terms[marks[neg[2]].owner], neg[3])

\* equate.rs 1616-1866: [terms, unsat]
Propagate(terms, marks, bas) ==
  LET r1 == NeOfReflexive(terms, marks, bas.neg, 1)
  IN IF r1.unsat THEN r1
     ELSE LET r2 == PosLoop(r1.terms, marks, bas.pos)
          IN IF r2.unsat THEN [terms |-> r2.terms, unsat |-> TRUE]
             ELSE [terms |-> r2.terms, unsat |-> NegLoop(r2.terms, marks, bas)]

\* Ineqs::push (equate.rs 2036-2045) on the state st of the pre-unification,
\* [ineqs, processed, base, terms, neg, out]: out is "ok", "unsat" once an
\* Err(Unsat) was returned, "panic" once unreachable!() was entered
IneqsPush(st, a, b) ==
  IF st.out # "ok" THEN st
  ELSE IF a = b THEN [st EXCEPT !.out = "panic"]
  ELSE IF <<Min(a, b), Max(a, b)>> \in Range(st.ineqs) THEN st
  ELSE [st EXCEPT !.ineqs = Append(@, <<Min(a, b), Max(a, b)>>)]

\* Ineqs::push_if_one_diff (equate.rs 2047-2058) on two argument lists of marks
PushIfOneDiff(st, marks, tms1, tms2) ==
  LET diff == {i \in 1..Min(Len(tms1), Len(tms2)) :
                 marks[tms1[i]].owner # marks[tms2[i]].owner}
  IN IF Cardinality(diff) = 1
       THEN IneqsPush(st, tms1[CHOOSE i \in diff : TRUE], tms2[CHOOSE i \in diff : TRUE])
       ELSE st

RECURSIVE NegEquals(_, _, _)
\* equate.rs 1932-1940: the negated equalities of the negative basis
NegEquals(st, neg, i) ==
  IF i > Len(neg) THEN st
  ELSE IF neg[i][1] = "Pred" /\ IsEqualsTo(neg[i][2])
    THEN NegEquals(IneqsPush(st, neg[i][3], neg[i][4]), neg, i + 1)
  ELSE NegEquals(st, neg, i + 1)

RECURSIVE CheckRefl(_, _, _, _, _)
\* Equalizer::check_refl (equate.rs 857-872)
CheckRefl(st, marks, atoms, prop, i) ==
  IF i > Len(atoms) \/ st.out # "ok" THEN st
  ELSE IF atoms[i][1] = "Pred" /\ prop \in PredProperties[atoms[i][2]]
    THEN IF marks[atoms[i][3]].owner = marks[atoms[i][4]].owner
           THEN [st EXCEPT !.out = "unsat"]
           ELSE CheckRefl(IneqsPush(st, st.terms[marks[atoms[i][3]].owner].mark,
                                    st.terms[marks[atoms[i][4]].owner].mark),
                          marks, atoms, prop, i + 1)
  ELSE CheckRefl(st, marks, atoms, prop, i + 1)

\* the equals_to atom pushed by Ineqs::process (equate.rs 2107-2110)
NeAtom(p) == <<"Pred", CHOOSE nr \in 1..Len(PredProperties) : IsEqualsTo(nr), p[1], p[2]>>

RECURSIVE Process(_, _)
\* Ineqs::process (equate.rs 2103-2116); process_ineq (2060-2101) skips the
\* classes, which hold no functor-like term
Process(st, marks) ==
  IF st.out # "ok" \/ st.processed >= Len(st.ineqs) THEN st
  ELSE LET p == st.ineqs[st.processed + 1]
           r == NonemptyNonzeroOfNe(st.terms, marks[p[1]].owner, marks[p[2]].owner)
       IN IF r.unsat THEN [st EXCEPT !.terms = r.terms, !.out = "unsat"]
          ELSE Process([st EXCEPT !.terms = r.terms,
                                  !.neg = IF st.processed >= st.base
                                            THEN Append(@, NeAtom(p)) ELSE @,
                                  !.processed = @ + 1], marks)

\* Attrs::contradicts: some attribute of one cluster is in the other with the
\* opposite sign
Contradicts(sc1, sc2) == \E a \in sc1.set : <<a[1], ~a[2]>> \in sc2.set

RECURSIVE ContradictingClasses(_, _, _)
\* equate.rs 1945-1952: the pairs of live classes with attributes, in the
\* order of tuple_combinations
ContradictingClasses(st, i, j) ==
  IF i > Len(st.terms) THEN st
  ELSE IF j > Len(st.terms) THEN ContradictingClasses(st, i + 1, i + 2)
  ELSE IF /\ st.terms[i].eq_class # <<>> /\ st.terms[i].supercluster.set # {}
          /\ st.terms[j].eq_class # <<>> /\ st.terms[j].supercluster.set # {}
          /\ Contradicts(st.terms[i].supercluster, st.terms[j].supercluster)
    THEN ContradictingClasses(IneqsPush(st, st.terms[i].mark, st.terms[j].mark), i, j + 1)
  ELSE ContradictingClasses(st, i, j + 1)

RECURSIVE NePreds(_, _, _, _, _)
\* equate.rs 1965-1974: a negative predicate against the positive ones
NePreds(st, marks, f, pos, j) ==
  IF j > Len(pos) THEN st
  ELSE IF pos[j][1] = "Pred" /\ pos[j][2] = f[2]
    THEN NePreds(PushIfOneDiff(st, marks, <<f[3], f[4]>>, <<pos[j][3], pos[j][4]>>),
                 marks, f, pos, j + 1)
  ELSE NePreds(st, marks, f, pos, j + 1)

RECURSIVE NeTypes(_, _, _, _)
\* equate.rs 2009-2016: a negative Is against the other classes of that type;
\* the types have no arguments, so 1998-2008 pushes nothing
NeTypes(st, marks, f, et2) ==
  IF et2 > Len(st.terms) THEN st
  ELSE IF /\ et2 # marks[f[2]].owner /\ st.terms[et2].eq_class # <<>>
          /\ InTyClass(st.terms[et2], f[3])
    THEN NeTypes(IneqsPush(st, f[2], st.terms[et2].mark), marks, f, et2 + 1)
  ELSE NeTypes(st, marks, f, et2 + 1)

RECURSIVE NegBasis(_, _, _, _, _)
\* equate.rs 1953-2018 over the negative basis as it stands when the loop starts
NegBasis(st, marks, neg, pos, i) ==
  IF i > Len(neg) THEN st
  ELSE IF neg[i][1] = "Pred" /\ ~IsEqualsTo(neg[i][2])
    THEN NegBasis(NePreds(st, marks, neg[i], pos, 1), marks, neg, pos, i + 1)
  ELSE IF neg[i][1] = "Is"
    THEN NegBasis(NeTypes(st, marks, neg[i], 1), marks, neg, pos, i + 1)
  ELSE NegBasis(st, marks, neg, pos, i + 1)

\* the pre-unification (equate.rs 1931-2024)
PreUnify(terms, marks, bas) ==
  LET st0 == [ineqs |-> <<>>, processed |-> 0, base |-> 0, terms |-> terms,
              neg |-> bas.neg, out |-> "ok"]
      st1 == NegEquals(st0, bas.neg, 1)
      st2 == [st1 EXCEPT !.base = Len(st1.ineqs)]
      st3 == CheckRefl(st2, marks, bas.pos, "Irreflexivity", 1)
      st4 == CheckRefl(st3, marks, bas.neg, "Reflexivity", 1)
      st5 == Process(st4, marks)
      st6 == ContradictingClasses(st5, 1, 2)
      st7 == NegBasis(st6, marks, st6.neg, bas.pos, 1)
  IN Process(st7, marks)

InitR ==
  /\ e_pc = "start"
  /\ \E D \in AtomSets : \E sg \in [D -> BOOLEAN] :
       e_input = [atoms |-> AtomUniverse, conj |-> Conjunct(D, sg)]
  /\ e_terms = <<>> /\ e_marks = <<>> /\ e_next = 0 /\ e_infers = <<>>
  /\ e_clash = FALSE /\ e_eqs = {} /\ e_bas = [pos |-> <<>>, neg |-> <<>>]
  /\ e_ineqs = <<>>
  /\ JParked /\ NParked /\ XParked /\ UParked /\ PParked

\* equate.rs 1385-1424
RunClassify ==
  /\ e_pc = "start"
  /\ LET st == ClassifyAtoms(
                 [eq |-> [terms |-> e_terms, marks |-> <<>>, next |-> e_next,
                          infers |-> e_infers],
                  eqs |-> {}, bas |-> [pos |-> <<>>, neg |-> <<>>], unsat |-> FALSE],
                 e_input.atoms, e_input.conj, 1, TRUE)
     IN /\ e_terms' = st.eq.terms
        /\ e_marks' = st.eq.marks
        /\ e_next' = st.eq.next
        /\ e_infers' = st.eq.infers
        /\ e_eqs' = st.eqs
        /\ e_bas' = st.bas
        /\ e_pc' = IF st.unsat THEN "unsat" ELSE "symm"
  /\ UNCHANGED <<e_input, e_clash, e_ineqs, note>>

\* equate.rs 1431-1433
RunAddSymm ==
  /\ e_pc = "symm"
  /\ LET neg == AddSymm(e_bas.pos, e_bas.neg, "Asymmetry", 1)
         pos == AddSymm(neg, e_bas.pos, "Connectedness", 1)
     IN e_bas' = [pos |-> pos, neg |-> neg]
  /\ e_pc' = "union"
  /\ UNCHANGED <<e_input, e_terms, e_marks, e_next, e_infers, e_clash, e_eqs, e_ineqs, note>>

\* one iteration of equate.rs 1518-1520, in the order of the BTreeSet
RunUnion ==
  /\ e_pc = "union" /\ e_eqs # {}
  /\ LET p == CHOOSE q \in e_eqs : \A o \in e_eqs :
                q[1] < o[1] \/ (q[1] = o[1] /\ q[2] <= o[2])
         r == UnionTerms(e_terms, e_marks, e_clash, p[1], p[2])
     IN /\ e_terms' = r.terms
        /\ e_marks' = r.marks
        /\ e_clash' = r.clash
        /\ e_eqs' = e_eqs \ {p}
        /\ e_pc' = IF r.unsat THEN "unsat" ELSE "union"
  /\ UNCHANGED <<e_input, e_next, e_infers, e_bas, e_ineqs, note>>

\* equate.rs 1545-1579: identities() clears the clash flag, then RenumEqClasses
RunRenum ==
  /\ e_pc = "union" /\ e_eqs = {}
  /\ LET r == RenumEqClasses(e_terms, e_marks)
     IN /\ e_terms' = r.terms
        /\ e_marks' = r.marks
  /\ e_clash' = FALSE
  /\ e_pc' = "verify"
  /\ UNCHANGED <<e_input, e_next, e_infers, e_eqs, e_bas, e_ineqs, note>>

\* equate.rs 1581-1614
RunContradictionVerify ==
  /\ e_pc = "verify"
  /\ e_pc' = IF ContradictionVerify(e_terms, e_marks, e_bas) THEN "unsat" ELSE "propagate"
  /\ UNCHANGED <<e_input, e_terms, e_marks, e_next, e_infers, e_clash, e_eqs, e_bas, e_ineqs, note>>

\* equate.rs 1616-1866
RunPropagate ==
  /\ e_pc = "propagate"
  /\ LET r == Propagate(e_terms, e_marks, e_bas)
     IN /\ e_terms' = r.terms
        /\ e_pc' = IF r.unsat THEN "unsat" ELSE "roundup"
  /\ UNCHANGED <<e_input, e_marks, e_next, e_infers, e_clash, e_eqs, e_bas, e_ineqs, note>>

\* equate.rs 1868-1925
RunRoundUp ==
  /\ e_pc = "roundup"
  /\ LET r == RoundUp(e_terms, 1)
     IN /\ e_terms' = r.terms
        /\ e_pc' = IF r.unsat THEN "unsat" ELSE "preunify"
  /\ UNCHANGED <<e_input, e_marks, e_next, e_infers, e_clash, e_eqs, e_bas, e_ineqs, note>>

\* equate.rs 1931-2024: the run returns the bases ("done"), returns Err(Unsat)
\* ("unsat"), or panics in Ineqs::push ("panic")
RunPreUnify ==
  /\ e_pc = "preunify"
  /\ LET st == PreUnify(e_terms, e_marks, e_bas)
     IN /\ e_terms' = st.terms
        /\ e_ineqs' = st.ineqs
        /\ e_bas' = [e_bas EXCEPT !.neg = st.neg]
        /\ e_pc' = CASE st.out = "ok" -> "done"
                     [] st.out = "unsat" -> "unsat"
                     [] st.out = "panic" -> "panic"
  /\ UNCHANGED <<e_input, e_marks, e_next, e_infers, e_clash, e_eqs, note>>

NextR ==
  \/ RunClassify \/ RunAddSymm \/ RunUnion \/ RunRenum
  \/ RunContradictionVerify \/ RunPropagate \/ RunRoundUp \/ RunPreUnify

SpecRun == InitR /\ [][NextR]_vars

\* C6: while the run has not raised Unsat, the supercluster of every live
\* class is Consistent; a step that makes one Inconsistent ends in Unsat.
C6_SuperclusterConsistent ==
  e_pc # "unsat" => \A c \in Live : e_terms[c].supercluster.ok

\* a union whose re-insertion of the attributes clashed, and raised Unsat
C6_Witness ==
  /\ e_pc = "unsat"
  /\ \E c \in Live : ~e_terms[c].supercluster.ok /\ Len(e_terms[c].eq_class) = 2

AfterAddSymm == e_pc \in {"union", "verify", "propagate", "roundup", "preunify", "done"}
IsAsymmetric(f) == f[1] = "Pred" /\ "Asymmetry" \in PredProperties[f[2]]

\* C8 as stated: after the symmetry augmentation, for every asymmetric
\* predicate P(a,b) of the positive basis the negative basis contains P(b,a),
\* whatever the negative basis held before.
C8_SwappedInNegBasis ==
  AfterAddSymm =>
    \A i \in 1..Len(e_bas.pos) :
      IsAsymmetric(e_bas.pos[i]) => AtomsFind(e_bas.neg, Swapped(e_bas.pos[i])) # {}

\* C8, amended: after the symmetry augmentation, for every asymmetric
\* predicate P(a,b) of the positive basis the negative basis contains P(b,a),
\* unless it contains P(a,b) itself.
C8_SwappedUnlessPresent ==
  AfterAddSymm =>
    \A i \in 1..Len(e_bas.pos) :
      IsAsymmetric(e_bas.pos[i]) =>
        \/ AtomsFind(e_bas.neg, Swapped(e_bas.pos[i])) # {}
        \/ AtomsFind(e_bas.neg, e_bas.pos[i]) # {}

\* P(1,2) required positive, P(2,1) not constrained: the augmentation added it
C8_Witness ==
  /\ e_pc = "union"
  /\ e_input.conj[8] = {TRUE} /\ e_input.conj[9] = {}
  /\ Len(e_bas.pos) = 1 /\ IsAsymmetric(e_bas.pos[1])
  /\ e_bas.neg = <<Swapped(e_bas.pos[1])>>

\* a negated reflexive predicate of the negative basis whose two arguments
\* are in the same class
ReflexiveClash ==
  \E i \in 1..Len(e_bas.neg) :
    /\ e_bas.neg[i][1] = "Pred"
    /\ "Reflexivity" \in PredProperties[e_bas.neg[i][2]]
    /\ e_marks[e_bas.neg[i][3]].owner = e_marks[e_bas.neg[i][4]].owner

\* C11: when the negative basis holds a predicate with the Reflexivity
\* property whose two arguments are in the same class once the unions are
\* done, the run raises Unsat: it never gets past the contradiction check, and
\* never returns the bases.
C11_ReflexiveRefuted ==
  e_pc \in {"propagate", "roundup", "preunify", "done"} => ~ReflexiveClash

\* not R(1,2) with 1 = 2: the contradiction check raised Unsat
C11_Witness ==
  /\ e_pc = "unsat"
  /\ e_input.conj[11] = {FALSE} /\ e_input.conj[7] = {TRUE}
  /\ e_eqs = {} /\ e_clash = FALSE
  /\ ReflexiveClash
  /\ Cardinality(Live) = 1

\* a belongs_to(x, y) of the positive basis whose y is in a class carrying the
\* positive attribute empty
InEmpty ==
  \E i \in 1..Len(e_bas.pos) :
    /\ e_bas.pos[i][1] = "Pred" /\ IsBelongsTo(e_bas.pos[i][2])
    /\ AttrEmpty \in e_terms[e_marks[e_bas.pos[i][4]].owner].supercluster.set

\* C12: when the positive basis contains belongs_to(x, y) and the class of y
\* carries the positive attribute empty, the run raises Unsat: the propagation
\* inserts non-empty into the class of y, so no such class gets past it.
C12_MemberOfEmptyRefuted ==
  e_pc \in {"roundup", "preunify", "done"} => ~InEmpty

\* 1 in 2 with 2 empty: the propagation made the supercluster of the class of
\* 2 inconsistent and raised Unsat
C12_Witness ==
  /\ e_pc = "unsat"
  /\ e_input.conj[12] = {TRUE} /\ e_input.conj[4] = {TRUE}
  /\ \A i \in 1..Len(AtomUniverse) : i \notin {4, 12} => e_input.conj[i] = {}
  /\ ~e_terms[e_marks[e_bas.pos[1][4]].owner].supercluster.ok

\* an inequation of the pre-unification whose two marks are in the same
\* class: a pair of Ineqs, or a negated equality of the negative basis, which
\* 1932-1940 hands to Ineqs::push
SameClassInequation ==
  \/ \E i \in 1..Len(e_ineqs) :
       e_marks[e_ineqs[i][1]].owner = e_marks[e_ineqs[i][2]].owner
  \/ \E i \in 1..Len(e_bas.neg) :
       /\ e_bas.neg[i][1] = "Pred" /\ IsEqualsTo(e_bas.neg[i][2])
       /\ e_marks[e_bas.neg[i][3]].owner = e_marks[e_bas.neg[i][4]].owner

\* C13 as stated: whenever an inequation (a, b) is recorded or processed by
\* the pre-unification and the marks a and b are in the same class, the run
\* raises Unsat; it neither returns the bases with the pair ignored nor aborts.
C13_SameClassInequationRefuted ==
  e_pc \in {"done", "panic"} => ~SameClassInequation

\* the atom f after the y pass: every inference constant is replaced by the
\* marker of its class
Interned(f) ==
  CASE f[1] = "Pred" -> <<"Pred", f[2], e_infers[f[3]], e_infers[f[4]]>>
    [] f[1] = "Is" -> <<"Is", e_infers[f[2]], f[3]>>
    [] f[1] = "Attr" -> <<"Attr", f[2], e_infers[f[3]]>>

ClassOf(k) == e_terms[e_marks[e_infers[k]].owner]
Required(pos) == {i \in 1..Len(e_input.atoms) : e_input.conj[i] = {pos}}
Classified == e_pc = "symm"

\* the positive atoms: Is atoms are type insertions, Attr atoms supercluster
\* insertions, equalities pending equations, the others the positive basis
PositiveClassified ==
  /\ \A i \in Required(TRUE) :
       LET f == e_input.atoms[i]
       IN CASE f[1] = "Is" -> InTyClass(ClassOf(f[2]), f[3])
            [] f[1] = "Attr" -> <<f[2], TRUE>> \in ClassOf(f[3]).supercluster.set
            [] f[1] = "Pred" /\ IsEqualsTo(f[2]) ->
                 f[3] # f[4] => <<Min(e_marks[e_infers[f[3]]].owner,
                                      e_marks[e_infers[f[4]]].owner),
                                  Max(e_marks[e_infers[f[3]]].owner,
                                      e_marks[e_infers[f[4]]].owner)>> \in e_eqs
            [] OTHER -> Interned(f) \in Range(e_bas.pos)
  /\ Len(e_bas.pos) =
       Cardinality({i \in Required(TRUE) :
                      e_input.atoms[i][1] = "Pred" /\ ~IsEqualsTo(e_input.atoms[i][2])})

\* C19 as stated: after the classification every atom required negative is in
\* the negative basis, whatever its shape, and the positive atoms are
\* classified by shape.
C19_NegativeInNegBasis ==
  Classified =>
    /\ \A i \in Required(FALSE) : Interned(e_input.atoms[i]) \in Range(e_bas.neg)
    /\ PositiveClassified

\* C19, amended: after the classification every atom required negative other
\* than an Attr atom is in the negative basis, and nothing else is; an Attr
\* atom of either sign is a supercluster insertion with the sign of the atom
\* on the class of its subject; the positive atoms are classified by shape.
C19_NegativeNonAttrInNegBasis ==
  Classified =>
    /\ \A i \in Required(FALSE) :
         LET f == e_input.atoms[i]
         IN IF f[1] = "Attr"
              THEN <<f[2], FALSE>> \in ClassOf(f[3]).supercluster.set
              ELSE Interned(f) \in Range(e_bas.neg)
    /\ Len(e_bas.neg) =
         Cardinality({i \in Required(FALSE) : e_input.atoms[i][1] # "Attr"})
    /\ PositiveClassified

\* a negative Attr, a negative Is and a positive predicate were classified:
\* the attribute is in the supercluster, the Is in the negative basis
C19_Witness ==
  /\ Classified
  /\ e_input.conj[1] = {FALSE} /\ e_input.conj[5] = {FALSE} /\ e_input.conj[8] = {TRUE}
  /\ Len(e_bas.neg) = 1 /\ Len(e_bas.pos) = 1
  /\ <<1, FALSE>> \in ClassOf(1).supercluster.set

-----------------------------------------------------------------------------
(* Formulas and terms of the passes over the check formula *)

\* Terms: <<"Bound", n>>, <<"Numeral", n>>, <<"Constant", n>>, and nullary
\* <<"Functor", nr>>, functor 1 being the zero_number of the requirements.
\* Formulas: <<"true">>, <<"neg", f>>, <<"and", args>>, <<"forall", scope>>
\* (the domain is `set`), <<"pred", nr, args>> and
\* <<"flexand", <<left, right>>, expansion>> (orig is carried along untouched).
Bound(n) == <<"Bound", n>>
Numeral(n) == <<"Numeral", n>>
Functor(nr) == <<"Functor", nr>>
Pred(nr, args) == <<"pred", nr, args>>
IsZeroNumber(nr) == nr = 1

\* Formula::mk_neg: a negation is stripped, anything else is wrapped
MkNeg(f) == IF f[1] = "neg" THEN f[2] ELSE <<"neg", f>>

\* Formula::maybe_neg
MaybeNeg(f, pos) == IF pos THEN f ELSE MkNeg(f)

\* Formula::mk_and: True for no conjunct, the conjunct itself for one
MkAnd(conjs) ==
  IF conjs = <<>> THEN <<"true">>
  ELSE IF Len(conjs) = 1 THEN conjs[1]
  ELSE <<"and", conjs>>

\* Formula::append_conjuncts_to: True adds nothing, an And adds its arguments
AppendConjunctsTo(f, conjs) ==
  IF f[1] = "true" THEN conjs
  ELSE IF f[1] = "and" THEN conjs \o f[2]
  ELSE Append(conjs, f)

\* Inst0::visit_term (checker.rs 179-185)
Inst0Term(tm, by) ==
  IF tm[1] = "Bound" THEN (IF tm[2] = 0 THEN by ELSE Bound(tm[2] - 1)) ELSE tm

RECURSIVE Inst0(_, _)
\* inst.visit_formula(&mut tm, 0) (checker.rs 189)
Inst0(f, by) ==
  CASE f[1] = "neg" -> <<"neg", Inst0(f[2], by)>>
    [] f[1] = "and" -> <<"and", [i \in 1..Len(f[2]) |-> Inst0(f[2][i], by)]>>
    [] f[1] = "forall" -> <<"forall", Inst0(f[2], by)>>
    [] f[1] = "pred" -> Pred(f[2], [i \in 1..Len(f[3]) |-> Inst0Term(f[3][i], by)])
    [] OTHER -> f

RECURSIVE FlexLoop(_, _, _, _, _, _)
\* the loop of checker.rs 175-191 from i on; zero is {} for None
FlexLoop(scope, i, right, zero, conjs, pos) ==
  IF i > right THEN [conjs |-> conjs, panicked |-> FALSE]
  ELSE IF i = 0 /\ zero = {} THEN [conjs |-> conjs, panicked |-> TRUE]
  ELSE LET by == IF i = 0 THEN CHOOSE z \in zero : TRUE ELSE Numeral(i)
           tm == Inst0(scope, by)
       IN FlexLoop(scope, i + 1, right, zero,
                   AppendConjunctsTo(MaybeNeg(tm, ~pos), conjs), pos)

\* Expand::expand_flex (checker.rs 152-193)
ExpandFlex(terms, expansion, conjs, pos) ==
  LET isZero == terms[1][1] = "Functor" /\ IsZeroNumber(terms[1][2])
      zero == IF isZero THEN {terms[1]} ELSE {}
      left == IF isZero THEN 0 ELSE terms[1][2]
      right == terms[2][2]
  IN IF ~isZero /\ terms[1][1] # "Numeral" THEN [conjs |-> conjs, panicked |-> FALSE]
     ELSE IF terms[2][1] # "Numeral" THEN [conjs |-> conjs, panicked |-> FALSE]
     ELSE IF Max(right - left, 0) <= FlexLimit
       THEN FlexLoop(expansion[2][2][2][3], left, right, zero, conjs, pos)
       ELSE [conjs |-> conjs, panicked |-> FALSE]

\* The FlexAnd formulas handed to expand
LeftTerms == {Numeral(n) : n \in 0..MaxRight} \cup {Functor(1), Functor(2)}
RightTerms ==
  {Numeral(n) : n \in 0..MaxRight} \cup {Numeral(FlexLimit + MaxRight + 1), Functor(2)}
Bodies ==
  { <<"neg", Pred(1, <<Bound(0)>>)>>,
    Pred(1, <<Bound(0)>>),
    <<"neg", <<"forall", Pred(2, <<Bound(0), Bound(1)>>)>>>>,
    <<"neg", <<"and", <<Pred(1, <<Bound(0)>>), Pred(2, <<Bound(0), Bound(0)>>)>>>>>> }
Expansion(l, r, body) ==
  <<"forall", <<"neg", <<"and", <<Pred(3, <<l, Bound(0)>>), Pred(3, <<Bound(0), r>>), body>>>>>>>>
FlexAnds ==
  {<<"flexand", <<l, r>>, Expansion(l, r, b)>> : l \in LeftTerms, r \in RightTerms, b \in Bodies}

InitX ==
  /\ x_pc = "flexand" /\ x_f \in FlexAnds /\ x_pos \in BOOLEAN /\ x_bound_var \in {0, 1}
  /\ x_conjs = <<>> /\ x_out = x_f /\ x_fixed_var = 0 /\ x_out2 = <<"true">>
  /\ JParked /\ NParked /\ EParked /\ UParked /\ PParked

\* The FlexAnd arm of Expand::expand up to the call of expand_flex (checker.rs
\* 123-138); there are no private functors, so f1 is the formula itself
ExpandFlexAndArm ==
  /\ x_pc = "flexand"
  /\ IF x_bound_var = 0
       THEN /\ x_conjs' = AppendConjunctsTo(MaybeNeg(x_f[3], x_pos), <<MaybeNeg(x_f, x_pos)>>)
            /\ x_pc' = "expand_flex"
       ELSE /\ x_conjs' = x_conjs
            /\ x_pc' = "done"
  /\ UNCHANGED <<x_f, x_pos, x_bound_var, x_out, x_fixed_var, x_out2, notx>>

\* self.expand_flex(terms, expansion, &mut conjs, pos) (checker.rs 139)
ExpandFlexCall ==
  /\ x_pc = "expand_flex"
  /\ LET r == ExpandFlex(x_f[2], x_f[3], x_conjs, x_pos)
     IN /\ x_conjs' = r.conjs
        /\ x_pc' = IF r.panicked THEN "panicked" ELSE "mk_and"
  /\ UNCHANGED <<x_f, x_pos, x_bound_var, x_out, x_fixed_var, x_out2, notx>>

\* *f = Formula::mk_and(conjs).maybe_neg(pos) (checker.rs 140)
ExpandFlexStore ==
  /\ x_pc = "mk_and"
  /\ x_out' = MaybeNeg(MkAnd(x_conjs), x_pos)
  /\ x_pc' = "done"
  /\ UNCHANGED <<x_f, x_pos, x_bound_var, x_conjs, x_fixed_var, x_out2, notx>>

NextX == ExpandFlexAndArm \/ ExpandFlexCall \/ ExpandFlexStore

SpecExpand == InitX /\ [][NextX]_vars

IsConcrete(tm) == tm[1] = "Numeral" \/ (tm[1] = "Functor" /\ IsZeroNumber(tm[2]))
ValueOf(tm) == IF tm[1] = "Numeral" THEN tm[2] ELSE 0
FlexBase == AppendConjunctsTo(MaybeNeg(x_f[3], x_pos), <<MaybeNeg(x_f, x_pos)>>)

\* C9: expanding a FlexAnd (outside any binder) whose bounds are concrete
\* numerals L <= R with R - L <= 100 appends exactly R - L + 1 conjuncts, the
\* i-th being the scope with Bound(0) replaced by the numeral L + i and the
\* other bound indices decremented; a FlexAnd whose bounds are not both
\* concrete, or whose range exceeds 100, is left unchanged.
C9_FlexAppendsRange ==
  (x_bound_var = 0 /\ x_pc \in {"mk_and", "panicked", "done"}) =>
    LET left == x_f[2][1]
        right == x_f[2][2]
        L == ValueOf(left)
        R == ValueOf(right)
        scope == x_f[3][2][2][2][3]
        by(i) == IF i = 0 /\ left[1] = "Functor" THEN left ELSE Numeral(i)
    IN IF IsConcrete(left) /\ IsConcrete(right)
         THEN IF R - L > FlexLimit
                THEN x_pc # "panicked" /\ (x_pc = "done" => x_out = x_f)
                ELSE L <= R =>
                  /\ x_pc # "panicked"
                  /\ x_conjs = FlexBase \o
                       [i \in 1..(R - L + 1) |->
                          MaybeNeg(Inst0(scope, by(L + i - 1)), ~x_pos)]
         ELSE x_pc # "panicked" /\ (x_pc = "done" => x_out = x_f)

-----------------------------------------------------------------------------
(* Checker::open_quantifiers::<ConstId> *)

Constant(n) == <<"Constant", n>>

\* SetVar::visit_term (checker.rs 292-302)
SetVarTerm(tm, depth, base) ==
  IF tm[1] = "Bound"
    THEN IF tm[2] >= depth THEN Bound(tm[2] - depth) ELSE Constant(base + tm[2])
    ELSE tm

RECURSIVE SetVar(_, _, _)
\* set_var.visit_formula (checker.rs 338)
SetVar(f, depth, base) ==
  CASE f[1] = "neg" -> <<"neg", SetVar(f[2], depth, base)>>
    [] f[1] = "and" -> <<"and", [i \in 1..Len(f[2]) |-> SetVar(f[2][i], depth, base)]>>
    [] f[1] = "forall" -> <<"forall", SetVar(f[2], depth, base)>>
    [] f[1] = "pred" ->
         Pred(f[2], [i \in 1..Len(f[3]) |-> SetVarTerm(f[3][i], depth, base)])
    [] OTHER -> f

RECURSIVE StripForAlls(_, _)
\* the while loop of checker.rs 332-337: one new_var per leading ForAll
StripForAlls(f, depth) ==
  IF f[1] = "forall" THEN StripForAlls(f[2], depth + 1) ELSE [f |-> f, depth |-> depth]

RECURSIVE OpenQuantifiers(_, _, _)
RECURSIVE OpenArgs(_, _, _, _)

\* A Neg arm that collapses a double negation without descending into it.
OpenNeg_NoDescent(f, pos, n) ==
  IF f[2][1] = "neg" THEN [f |-> f[2][2], n |-> n] ELSE [f |-> f, n |-> n]

\* the Neg arm (checker.rs 316-321)
OpenNeg(f, pos, n) ==
  LET r == OpenQuantifiers(f[2], ~pos, n)
  IN IF r.f[1] = "neg" THEN [f |-> r.f[2], n |-> r.n]
     ELSE [f |-> <<"neg", r.f>>, n |-> r.n]

\* the loop of the And arm (checker.rs 324-327)
OpenArgs(args, pos, n, conjs) ==
  IF args = <<>> THEN [conjs |-> conjs, n |-> n]
  ELSE LET r == OpenQuantifiers(Head(args), pos, n)
       IN OpenArgs(Tail(args), pos, r.n, AppendConjunctsTo(r.f, conjs))

\* Checker::open_quantifiers (checker.rs 313-356); n is lc.fixed_var.len().
\* SetVar::new reads the base after the first new_var.
OpenQuantifiers(f, pos, n) ==
  CASE f[1] = "neg" -> OpenNeg(f, pos, n)
    [] f[1] = "and" ->
         LET r == OpenArgs(f[2], pos, n, <<>>)
         IN [f |-> MkAnd(r.conjs), n |-> r.n]
    [] f[1] = "forall" /\ ~pos ->
         LET base == n + 1
             st == StripForAlls(f[2], 1)
         IN OpenQuantifiers(SetVar(st.f, st.depth, base), pos, n + st.depth)
    [] OTHER -> [f |-> f, n |-> n]

\* The formulas handed to open_quantifiers
OLeaves == {<<"true">>} \cup {Pred(p, <<Constant(0)>>) : p \in 1..NLeaves}
ONeg(S) == {<<"neg", f>> : f \in S}
OAnd(S, T) == {<<"and", <<f, g>>>> : f \in S, g \in T}
OForAlls ==
  { <<"forall", Pred(1, <<Bound(0)>>)>>,
    <<"forall", <<"forall", Pred(2, <<Bound(0), Bound(1)>>)>>>> }
OLevel1 == OLeaves \cup ONeg(OLeaves) \cup ONeg(ONeg(OLeaves)) \cup OForAlls
OLevel2 == OLevel1 \cup OAnd(OLevel1, OLevel1)
OLevel3 == OLevel2 \cup ONeg(OLevel2) \cup ONeg(ONeg(OLevel2))
OFormulas == OLevel3 \cup OAnd(OLevel3, OLeaves) \cup OAnd(OLeaves, OLevel3)

InitO ==
  /\ x_pc = "open" /\ x_f \in OFormulas /\ x_pos \in BOOLEAN /\ x_bound_var = 0
  /\ x_conjs = <<>> /\ x_out = x_f /\ x_fixed_var = 0 /\ x_out2 = <<"true">>
  /\ JParked /\ NParked /\ EParked /\ UParked /\ PParked

\* self.open_quantifiers::<ConstId>(&mut check_f, pos) (checker.rs 64)
OpenCall ==
  /\ x_pc = "open"
  /\ LET r == OpenQuantifiers(x_f, x_pos, x_fixed_var)
     IN x_out' = r.f /\ x_fixed_var' = r.n
  /\ x_pc' = "opened"
  /\ UNCHANGED <<x_f, x_pos, x_bound_var, x_conjs, x_out2, notx>>

\* the same call on the formula the first call left
OpenAgain ==
  /\ x_pc = "opened"
  /\ LET r == OpenQuantifiers(x_out, x_pos, x_fixed_var)
     IN x_out2' = r.f /\ x_fixed_var' = r.n
  /\ x_pc' = "done"
  /\ UNCHANGED <<x_f, x_pos, x_bound_var, x_conjs, x_out, notx>>

NextO == OpenCall \/ OpenAgain

SpecOpen == InitO /\ [][NextO]_vars

RECURSIVE ForAllFree(_)
ForAllFree(f) ==
  CASE f[1] = "forall" -> FALSE
    [] f[1] = "neg" -> ForAllFree(f[2])
    [] f[1] = "and" -> \A i \in 1..Len(f[2]) : ForAllFree(f[2][i])
    [] OTHER -> TRUE

\* C10: on a formula without ForAll, open_quantifiers pushes no variable,
\* and a second application leaves the result of the first unchanged.
C10_OpenIdempotent ==
  ForAllFree(x_f) =>
    /\ x_pc \in {"opened", "done"} => x_fixed_var = 0
    /\ x_pc = "done" => x_out2 = x_out

\* Neg(Neg(And[And[P, Q], Neg(Neg(P))])) was opened twice, and the first pass
\* rewrote it
C10_Witness ==
  /\ x_pc = "done"
  /\ ForAllFree(x_f)
  /\ x_f[1] = "neg" /\ x_f[2][1] = "neg" /\ x_f[2][2][1] = "and"
  /\ x_out # x_f
  /\ x_out[1] = "and" /\ Len(x_out[2]) = 2

-----------------------------------------------------------------------------
(* Formula::distribute_quantifiers *)

RECURSIVE MentionsVar(_, _)
\* f.visit(&mut OnVarMut(|nr, _| nontrivial |= *nr == depth)) (checker.rs 232-233)
MentionsVar(f, depth) ==
  CASE f[1] = "neg" -> MentionsVar(f[2], depth)
    [] f[1] = "and" -> \E i \in 1..Len(f[2]) : MentionsVar(f[2][i], depth)
    [] f[1] = "forall" -> MentionsVar(f[2], depth)
    [] f[1] = "pred" -> \E i \in 1..Len(f[3]) : f[3][i] = Bound(depth)
    [] OTHER -> FALSE

LowerTerm(tm, depth) ==
  IF tm[1] = "Bound" /\ tm[2] > depth THEN Bound(tm[2] - 1) ELSE tm

RECURSIVE LowerVars(_, _)
\* f.visit(&mut OnVarMut(|nr, _| if *nr > depth { *nr -= 1 })) (checker.rs 237-241)
LowerVars(f, depth) ==
  CASE f[1] = "neg" -> <<"neg", LowerVars(f[2], depth)>>
    [] f[1] = "and" -> <<"and", [i \in 1..Len(f[2]) |-> LowerVars(f[2][i], depth)]>>
    [] f[1] = "forall" -> <<"forall", LowerVars(f[2], depth)>>
    [] f[1] = "pred" -> Pred(f[2], [i \in 1..Len(f[3]) |-> LowerTerm(f[3][i], depth)])
    [] OTHER -> f

\* the body of the loop of checker.rs 231-243 on one conjunct of the scope
DistributeOver(f, depth) ==
  IF MentionsVar(f, depth) THEN <<"forall", f>> ELSE LowerVars(f, depth)

RECURSIVE DistributeQuantifiers(_, _)
RECURSIVE DistributeArgs(_, _, _)

\* the loop of the And arm (checker.rs 221-224)
DistributeArgs(args, depth, conjs) ==
  IF args = <<>> THEN conjs
  ELSE DistributeArgs(Tail(args), depth,
                      AppendConjunctsTo(DistributeQuantifiers(Head(args), depth), conjs))

\* Formula::distribute_quantifiers (checker.rs 212-256).  The ForAll arm
\* rewrites the conjuncts of the scope in place and leaves *self, the ForAll,
\* where it is.  There are no private functors, so ExpandPrivFunc leaves the
\* atoms alone.
DistributeQuantifiers(f, depth) ==
  CASE f[1] = "neg" -> MkNeg(DistributeQuantifiers(f[2], depth))
    [] f[1] = "and" -> MkAnd(DistributeArgs(f[2], depth, <<>>))
    [] f[1] = "forall" ->
         LET scope == DistributeQuantifiers(f[2], depth + 1)
         IN IF scope[1] = "and"
              THEN <<"forall", <<"and", [i \in 1..Len(scope[2]) |->
                                          DistributeOver(scope[2][i], depth)]>>>>
              ELSE <<"forall", scope>>
    [] OTHER -> f

\* The conjuncts under the quantifier: atoms that mention the variable, atoms
\* that do not, and quantified atoms whose own variable has index 1
DAtoms ==
  {Pred(p, <<Bound(0)>>) : p \in 1..NLeaves}
    \cup {Pred(p, <<Constant(0)>>) : p \in 1..NLeaves}
    \cup {<<"forall", Pred(p, <<Bound(1)>>)>> : p \in 1..NLeaves}
    \cup {<<"forall", Pred(p, <<Bound(0), Bound(1)>>)>> : p \in 1..NLeaves}
DConjuncts == DAtoms \cup {<<"neg", f>> : f \in DAtoms}
DArgs == {args \in SeqsUpTo(DConjuncts, MaxArgs) : Len(args) >= 2}
DFormulas ==
  {<<"forall", <<"and", args>>>> : args \in DArgs}
    \cup {<<"neg", <<"forall", <<"and", args>>>>>> : args \in DArgs}

InitD ==
  /\ x_pc = "distribute" /\ x_f \in DFormulas /\ x_pos = TRUE /\ x_bound_var = 0
  /\ x_conjs = <<>> /\ x_out = x_f /\ x_fixed_var = 0 /\ x_out2 = <<"true">>
  /\ JParked /\ NParked /\ EParked /\ UParked /\ PParked

\* fm.distribute_quantifiers(&self.g.constrs, 0) (unify.rs 280)
DistributeCall ==
  /\ x_pc = "distribute"
  /\ x_out' = DistributeQuantifiers(x_f, x_bound_var)
  /\ x_pc' = "distributed"
  /\ UNCHANGED <<x_f, x_pos, x_bound_var, x_conjs, x_fixed_var, x_out2, notx>>

NextD == DistributeCall

SpecDistribute == InitD /\ [][NextD]_vars

\* C20 as stated: distribute_quantifiers on ForAll x. And[A1..An] leaves the
\* conjunction of ForAll x. Ai for the Ai that mention x and of Ai, with its
\* deeper bound indices decremented by one, for the others; no quantifier
\* over x remains around the conjunction.
C20_QuantifierDistributed ==
  (x_pc = "distributed" /\ x_f[1] = "forall") =>
    x_out = <<"and", [i \in 1..Len(x_f[2][2]) |-> DistributeOver(x_f[2][2][i], 0)]>>

-----------------------------------------------------------------------------
(* Unifier::falsify and Unifier::resolution *)

MaxInst == 2     \* classes a free variable may be instantiated to

\* Instantiations are Dnf<FVarId, EqClassId>: the constant True, the empty
\* disjunction (false), or one conjunct sending the free variable 1 to a class
InstKinds == {DnfTrue, DnfOr(<<>>)} \cup {DnfOr(<<1 :> c>>) : c \in 1..MaxInst}
UbfKinds == {DnfTrue, DnfOr(<<>>), DnfOr(<<1 :> 1>>)}

\* Dnf::is_false
IsFalse(dnf) == ~dnf.t /\ dnf.or = <<>>

RECURSIVE AndMany(_)
\* Dnf::and_many: the meet of the instantiations, True for none; two
\* conjuncts merge unless they send a variable to two classes
AndMany(dnfs) ==
  IF dnfs = <<>> THEN DnfTrue
  ELSE LET rest == AndMany(Tail(dnfs))
       IN IF rest.t THEN DnfOr(Head(dnfs))
          ELSE DnfOr(MergeAll(Head(dnfs), rest.or))

\* The clauses the normalized formulas may hold, over the atoms 1..3: no
\* clause of the vector dominates another
ClauseUniverse ==
  << (1 :> TRUE) @@ (2 :> TRUE), (1 :> FALSE) @@ (2 :> TRUE),
     (1 :> TRUE) @@ (2 :> FALSE), (1 :> FALSE) @@ (2 :> FALSE),
     (3 :> TRUE) >>

RECURSIVE SubSeqOf(_, _)
\* the clauses of ClauseUniverse picked by S, in their order
SubSeqOf(S, i) ==
  IF i > Len(ClauseUniverse) THEN <<>>
  ELSE (IF i \in S THEN <<ClauseUniverse[i]>> ELSE <<>>) \o SubSeqOf(S, i + 1)

ClauseDnfs == {DnfTrue} \cup {DnfOr(SubSeqOf(S, 1)) : S \in SUBSET (1..Len(ClauseUniverse))}

RECURSIVE AtomSeq(_)
\* the keys of a BTreeMap, in increasing order
AtomSeq(S) ==
  IF S = {} THEN <<>>
  ELSE LET a == CHOOSE x \in S : \A y \in S : x <= y
       IN <<a>> \o AtomSeq(S \ {a})

\* the arguments (atom, pos) falsify and resolution may hand to compute_inst
InstKeys(dnf) ==
  IF dnf.t THEN {}
  ELSE UNION {{<<a, ~dnf.or[i][a]>> : a \in DOMAIN dnf.or[i]} : i \in 1..Len(dnf.or)}

RECURSIVE ClauseInsts(_, _, _, _, _)
\* the loop of unify.rs 152-164 (and 238-246, with the resolved atom skipped)
\* over the atoms `as` of a clause: [skip, dnfs], skip when compute_inst
\* returned the empty disjunction for some atom
ClauseInsts(clause, as, skipped, inst, dnfs) ==
  IF as = <<>> THEN [skip |-> FALSE, dnfs |-> dnfs]
  ELSE LET a == Head(as)
           d == inst[<<a, ~clause[a]>>]
       IN IF a \in skipped THEN ClauseInsts(clause, Tail(as), skipped, inst, dnfs)
          ELSE IF d.t THEN ClauseInsts(clause, Tail(as), skipped, inst, dnfs)
          ELSE IF d.or = <<>> THEN [skip |-> TRUE, dnfs |-> dnfs]
          ELSE ClauseInsts(clause, Tail(as), skipped, inst, Append(dnfs, d.or))

\* A clause loop that takes a failed instantiation for a true atom.
FalsifyClause_NoSkip(clause, inst) ==
  LET ok == {a \in DOMAIN clause : inst[<<a, ~clause[a]>>] # DnfOr(<<>>)}
      r == ClauseInsts(clause, AtomSeq(ok), {}, inst, <<>>)
  IN ~IsFalse(AndMany(r.dnfs))

\* one iteration of the loop of unify.rs 139-169: TRUE when it returns Err(Unsat)
FalsifyClause(clause, inst) ==
  LET r == ClauseInsts(clause, AtomSeq(DOMAIN clause), {}, inst, <<>>)
  IN ~r.skip /\ ~IsFalse(AndMany(r.dnfs))

RECURSIVE FalsifyClauses(_, _, _)
FalsifyClauses(clauses, inst, i) ==
  IF i > Len(clauses) THEN "Ok"
  ELSE IF FalsifyClause(clauses[i], inst) THEN "Unsat"
  ELSE FalsifyClauses(clauses, inst, i + 1)

\* Unifier::falsify (unify.rs 119-173) from the normalized negated body on
Falsify(dnf, inst) ==
  IF dnf.t THEN "Unsat" ELSE FalsifyClauses(dnf.or, inst, 1)

\* Similar.eq_formula on two atoms: atoms 1 and 2 may share their constructor,
\* atom 3 has its own
Similar(in, a1, a2) == a1 = a2 \/ (in.sim /\ {a1, a2} = {1, 2})

\* unify_basic_formula on two similar atoms
UnifyBasicFormula(in, a1, a2) == in.ubf[<<Min(a1, a2), Max(a1, a2)>>]

RECURSIVE CollectLiterals(_, _, _, _, _, _)
\* the two inner loops of unify.rs 220-231 for the clauses i < j: ps is the
\* sequence of the pairs (a1, a2) still to visit
CollectLiterals(in, clauses, i, j, ps, acc) ==
  IF ps = <<>> THEN acc
  ELSE LET a1 == Head(ps)[1]
           a2 == Head(ps)[2]
           d == UnifyBasicFormula(in, a1, a2)
       IN IF /\ clauses[i][a1] # clauses[j][a2]
             /\ Similar(in, a1, a2)
             /\ ~d.t /\ d.or # <<>>
            THEN CollectLiterals(in, clauses, i, j, Tail(ps),
                                 Append(acc, [cls |-> <<<<i, a1>>, <<j, a2>>>>,
                                              dnf |-> d.or]))
            ELSE CollectLiterals(in, clauses, i, j, Tail(ps), acc)

RECURSIVE LiteralPairs(_, _)
\* the pairs of the atoms of two clauses, in the order of the nested loops
LiteralPairs(as1, as2) ==
  IF as1 = <<>> THEN <<>>
  ELSE [k \in 1..Len(as2) |-> <<Head(as1), as2[k]>>] \o LiteralPairs(Tail(as1), as2)

RECURSIVE Collect(_, _, _, _, _)
\* CollectComplementaryLiterals (unify.rs 219-232): the clause pairs in the
\* order of tuple_combinations
Collect(in, clauses, i, j, acc) ==
  IF i >= Len(clauses) THEN acc
  ELSE IF j > Len(clauses) THEN Collect(in, clauses, i + 1, i + 2, acc)
  ELSE Collect(in, clauses, i, j + 1,
               CollectLiterals(in, clauses, i, j,
                               LiteralPairs(AtomSeq(DOMAIN clauses[i]),
                                            AtomSeq(DOMAIN clauses[j])), acc))

\* one iteration of ResolventVerify (unify.rs 237-250) for the candidate c:
\* TRUE when it returns Err(Unsat)
ResolventVerifyOne(clauses, inst, c) ==
  LET cl1 == clauses[c.cls[1][1]]
      cl2 == clauses[c.cls[2][1]]
      r1 == ClauseInsts(cl1, AtomSeq(DOMAIN cl1), {c.cls[1][2]}, inst, <<c.dnf>>)
      r2 == ClauseInsts(cl2, AtomSeq(DOMAIN cl2), {c.cls[2][2]}, inst, r1.dnfs)
  IN ~r1.skip /\ ~r2.skip /\ ~IsFalse(AndMany(r2.dnfs))

RECURSIVE ResolventVerify(_, _, _, _, _)
\* ResolventVerify (unify.rs 236-250): [result, tried]
ResolventVerify(clauses, inst, cs, k, tried) ==
  IF k > Len(cs) THEN [result |-> "Ok", tried |-> tried]
  ELSE IF ResolventVerifyOne(clauses, inst, cs[k])
    THEN [result |-> "Unsat", tried |-> Append(tried, cs[k])]
  ELSE ResolventVerify(clauses, inst, cs, k + 1, Append(tried, cs[k]))

GiveUp(cs) == [result |-> "Ok", complementary |-> cs, tried |-> <<>>]

\* A resolution that goes through every candidate it collected.
Resolution_EveryCandidate(in, inst, cs) ==
  IF in.dnf.t THEN GiveUp(<<>>)
  ELSE IF Len(in.dnf.or) < 2 \/ Len(in.dnf.or) > 4 THEN GiveUp(<<>>)
  ELSE LET r == ResolventVerify(in.dnf.or, inst, cs, 1, <<>>)
       IN [result |-> r.result, complementary |-> cs, tried |-> r.tried]

\* Unifier::resolution (unify.rs 176-253) from the clauses on; cs is the
\* vector CollectComplementaryLiterals builds
Resolution(in, inst, cs) ==
  IF in.dnf.t THEN GiveUp(<<>>)
  ELSE IF Len(in.dnf.or) < 2 \/ Len(in.dnf.or) > 4 THEN GiveUp(<<>>)
  ELSE IF Len(cs) # 1 THEN GiveUp(cs)
  ELSE LET r == ResolventVerify(in.dnf.or, inst, cs, 1, <<>>)
       IN [result |-> r.result, complementary |-> cs, tried |-> r.tried]

\* the atoms 2..4-clause resolution asks compute_inst about: the other
\* literals of the clauses of the candidates
ResolventKeys(clauses, cs) ==
  UNION {{<<a, ~clauses[cs[k].cls[n][1]][a]>> :
            a \in DOMAIN clauses[cs[k].cls[n][1]] \ {cs[k].cls[n][2]}} :
         k \in 1..Len(cs), n \in 1..2}

Candidates(in) ==
  IF in.dnf.t \/ Len(in.dnf.or) < 2 \/ Len(in.dnf.or) > 4 THEN <<>>
  ELSE Collect(in, in.dnf.or, 1, 2, <<>>)

UInputs ==
  {in \in [dnf : ClauseDnfs, sim : BOOLEAN, ubf : [{<<1, 1>>, <<1, 2>>, <<2, 2>>} -> UbfKinds]] :
     ~in.sim => in.ubf[<<1, 2>>] = DnfOr(<<>>)}

InitF ==
  /\ u_pc = "input"
  /\ u_input \in {in \in UInputs : ~in.sim /\ \A q \in DOMAIN in.ubf : in.ubf[q] = DnfOr(<<>>)}
  /\ u_inst = <<>> /\ u_result = "none" /\ u_complementary = <<>> /\ u_tried = <<>>
  /\ JParked /\ NParked /\ EParked /\ XParked /\ PParked

\* self.falsify(f.clone())? (unify.rs 260): compute_inst answers from the
\* equalized model, any instantiation for each atom and sign
FalsifyCall ==
  /\ u_pc = "input"
  /\ \E inst \in [InstKeys(u_input.dnf) -> InstKinds] :
       /\ u_inst' = inst
       /\ u_result' = Falsify(u_input.dnf, inst)
  /\ u_pc' = "falsify"
  /\ UNCHANGED <<u_input, u_complementary, u_tried, notu>>

NextF == FalsifyCall

SpecFalsify == InitF /\ [][NextF]_vars

InitV ==
  /\ u_pc = "input"
  /\ u_input \in UInputs
  /\ u_inst = <<>> /\ u_result = "none" /\ u_complementary = <<>> /\ u_tried = <<>>
  /\ JParked /\ NParked /\ EParked /\ XParked /\ PParked

\* self.resolution(&[f])? (unify.rs 264, 267)
ResolutionCall ==
  /\ u_pc = "input"
  /\ \E inst \in [ResolventKeys(u_input.dnf.or, Candidates(u_input)) -> InstKinds] :
       LET r == Resolution(u_input, inst, Candidates(u_input))
       IN /\ u_inst' = inst
          /\ u_result' = r.result
          /\ u_complementary' = r.complementary
          /\ u_tried' = r.tried
  /\ u_pc' = "resolution"
  /\ UNCHANGED <<u_input, notu>>

NextV == ResolutionCall

SpecResolution == InitV /\ [][NextV]_vars

\* C15: resolution returns without Unsat whenever the number of clauses is
\* smaller than 2 or larger than 4, and whenever the number of complementary
\* pairs it collected is not exactly one; it attempts a resolvent proof only
\* for a single candidate pair.
C15_ResolutionGivesUp ==
  u_pc = "resolution" =>
    /\ (u_input.dnf.t \/ Len(u_input.dnf.or) < 2 \/ Len(u_input.dnf.or) > 4) =>
         u_result = "Ok" /\ u_tried = <<>>
    /\ Len(u_complementary) # 1 => u_result = "Ok" /\ u_tried = <<>>
    /\ u_tried # <<>> => u_tried = u_complementary /\ Len(u_tried) = 1
    /\ u_result = "Unsat" => Len(u_tried) = 1

\* two candidates were collected from three clauses, and resolution gave up
C15_Witness ==
  /\ u_pc = "resolution" /\ u_result = "Ok"
  /\ Len(u_input.dnf.or) = 3 /\ Len(u_complementary) = 2 /\ u_tried = <<>>

\* the instantiation of the atom a of the clause, as falsify asks for it
InstOf(clause, a) == u_inst[<<a, ~clause[a]>>]
NonTrue(clause) == {a \in DOMAIN clause : ~InstOf(clause, a).t}

\* C16: falsify raises Unsat exactly when the negated opened body normalizes
\* to True, or some clause has no atom whose instantiation is the empty
\* disjunction and the meet of the non-True instantiations of its atoms is not
\* false; in every other case it returns Ok.  In particular a clause with one
\* atom whose instantiation is false does not count.
C16_FalsifyExactly ==
  u_pc = "falsify" =>
    /\ u_result \in {"Ok", "Unsat"}
    /\ u_result = "Unsat" <=>
         \/ u_input.dnf.t
         \/ \E i \in 1..Len(u_input.dnf.or) :
              LET clause == u_input.dnf.or[i]
              IN /\ \A a \in DOMAIN clause : InstOf(clause, a) # DnfOr(<<>>)
                 /\ \E v \in [NonTrue(clause) -> 1..MaxInst] :
                      \A a \in NonTrue(clause) : InstOf(clause, a) = DnfOr(<<1 :> v[a]>>)
                      /\ \A b \in NonTrue(clause) : v[a] = v[b]

\* the only clause has one atom with a false instantiation and one with a
\* satisfiable one: it was skipped, and falsify returned Ok
C16_Witness ==
  /\ u_pc = "falsify" /\ u_result = "Ok"
  /\ u_input.dnf = DnfOr(<<ClauseUniverse[1]>>)
  /\ u_inst[<<1, FALSE>>] = DnfOr(<<>>)
  /\ u_inst[<<2, FALSE>>] = DnfOr(<<1 :> 1>>)

-----------------------------------------------------------------------------
(* Equalizer::identities and process_reductions on functor terms *)

\* The environment.  Functors 1 (F) and 2 (G) are unary, with no property,
\* no requirement and no redefinition (Term::adjust returns its input);
\* functor 3 is the Succ requirement and functor 4 the RealNeg requirement.
\* There are no aggregates, selectors, private or scheme functors, Fraenkel
\* or choice terms.  Every type is `set`, no class carries a number.
IsSucc(nr) == nr = 3
IsRealArith(nr) == nr = 4

Locus(n) == <<"Locus", n>>
Infer(n) == <<"Infer", n>>
FunctorTerm(nr, arg) == <<"Functor", nr, <<arg>>>>

\* self.reductions: F(x) -> x and G(x) -> F(x), x of type set
Reductions ==
  << [lhs |-> FunctorTerm(1, Locus(0)), rhs |-> Locus(0)],
     [lhs |-> FunctorTerm(2, Locus(0)), rhs |-> FunctorTerm(1, Locus(0))] >>

\* F applied to the value of x, x being evaluated once
Then(x, F(_)) == CHOOSE r \in {F(v) : v \in {x}} : TRUE

\* ConstrMap::find (equate.rs 48-51), by the marks of the arguments
ConstrMapFind(marks, nr, args) ==
  LET found == {m \in 1..Len(marks) :
                  /\ marks[m].term[1] = "Functor" /\ marks[m].term[2] = nr
                  /\ marks[m].term[3] = args}
  IN IF found = {} THEN 0 ELSE CHOOSE m \in found : \A k \in found : m <= k

\* the Functor arm (equate.rs 363-397) once the argument is interned: a is
\* the equalizer and the class marker of the argument
YFunctor(a, nr) ==
  LET m == ConstrMapFind(a.eq.marks, nr, <<a.mark>>)
      c == NewEqClass([terms |-> a.eq.terms, marks |-> a.eq.marks, next |-> a.eq.next],
                      <<"Functor", nr, <<a.mark>>>>)
  IN IF m # 0
       THEN [eq |-> a.eq, mark |-> a.eq.terms[a.eq.marks[m].owner].mark]
       ELSE [eq |-> [terms |-> c.terms, marks |-> c.marks, next |-> c.next,
                     infers |-> a.eq.infers],
             mark |-> c.terms[Len(c.terms)].mark]

RECURSIVE YTerm(_, _)
\* Y::visit_term (equate.rs 344-397) on Term::Infer and Term::Functor:
\* returns the equalizer and the class marker the term is replaced by
YTerm(eq, tm) ==
  IF tm[1] = "Infer"
    THEN LET r == YInfer(eq, tm[2], [ty |-> TypeAny, number |-> {}])
         IN [eq |-> r.eq, mark |-> r.mark]
    ELSE Then(YTerm(eq, tm[3][1]), LAMBDA a : YFunctor(a, tm[2]))

RECURSIVE YTerms(_, _)
YTerms(eq, tms) ==
  IF tms = <<>> THEN eq
  ELSE Then(YTerm(eq, Head(tms)).eq, LAMBDA eq1 : YTerms(eq1, Tail(tms)))

\* the keys of self.constrs.functor
FunctorKeys(marks) ==
  {marks[m].term[2] : m \in {k \in 1..Len(marks) : marks[k].term[1] = "Functor"}}

\* An arithmetic arm that lets the Succ and real functors pass.
Arithmetic_Ignored(marks, arith) == FALSE

\* the Succ and real arithmetic arms of identities (equate.rs 1167-1182)
Arithmetic(marks, arith) ==
  \E i \in FunctorKeys(marks) : IsSucc(i) \/ (IsRealArith(i) /\ arith)

RECURSIVE UnionAll(_, _)
\* for (x, y) in to_union.drain(..) { self.union_terms(x, y)?; }
UnionAll(st, pairs) ==
  IF pairs = <<>> \/ st.unsat THEN st
  ELSE Then(UnionTerms(st.terms, st.marks, st.clash, Head(pairs)[1], Head(pairs)[2]),
            LAMBDA st1 : UnionAll(st1, Tail(pairs)))

\* the pairs of a BTreeSet or of tuple_combinations, in order
RECURSIVE SortedPairs(_)
SortedPairs(S) ==
  IF S = {} THEN <<>>
  ELSE LET p == CHOOSE q \in S : \A o \in S :
                  q[1] < o[1] \/ (q[1] = o[1] /\ q[2] <= o[2])
       IN <<p>> \o Then(S \ {p}, LAMBDA R : SortedPairs(R))

\* the closure f of equate.rs 1198-1251 on the functor index: the owners of
\* two marks of one functor whose arguments are equal marks
Congruent(marks) ==
  LET ms == {p \in (1..Len(marks)) \X (1..Len(marks)) :
               /\ p[1] < p[2]
               /\ marks[p[1]].term[1] = "Functor" /\ marks[p[2]].term[1] = "Functor"
               /\ marks[p[1]].term[2] = marks[p[2]].term[2]
               /\ marks[p[1]].owner # marks[p[2]].owner
               /\ EqMarks(marks, marks[p[1]].term[3][1], marks[p[2]].term[3][1])}
      byFunctor == {<<marks[p[1]].term[2], p[1], p[2]>> : p \in ms}
  IN byFunctor

RECURSIVE SortedTriples(_)
SortedTriples(S) ==
  IF S = {} THEN <<>>
  ELSE LET t == CHOOSE q \in S : \A o \in S :
                  \/ q[1] < o[1]
                  \/ (q[1] = o[1] /\ q[2] < o[2])
                  \/ (q[1] = o[1] /\ q[2] = o[2] /\ q[3] <= o[3])
       IN <<t>> \o Then(S \ {t}, LAMBDA R : SortedTriples(R))

\* to_union after the closure ran over the functor index
ToUnion(marks) ==
  Then(Then(Congruent(marks), LAMBDA S : SortedTriples(S)),
       LAMBDA ts : [i \in 1..Len(ts) |-> <<marks[ts[i][2]].owner, marks[ts[i][3]].owner>>])

\* Instantiate::inst_term (equate.rs 652-737) of a pattern against the class
\* of the marker m: the conjuncts of the Dnf, a locus assignment each (the
\* empty sequence is Dnf::FALSE); inst_type of `set` is Dnf::True
RECURSIVE InstTerm(_, _, _, _)
RECURSIVE InstTermMarks(_, _, _, _, _)
InstTermMarks(terms, marks, src, ms, res) ==
  IF ms = <<>> THEN res
  ELSE LET t == marks[Head(ms)].term
           r == IF t[1] = "Functor" /\ t[2] = src[2]
                  THEN InstTerm(terms, marks, src[3][1], t[3][1])
                  ELSE <<>>
           new == SelectSeq(r, LAMBDA c : \A k \in 1..Len(res) : res[k] # c)
       IN Then(res \o new, LAMBDA res1 : InstTermMarks(terms, marks, src, Tail(ms), res1))

InstTerm(terms, marks, src, m) ==
  LET et == Canon(terms, marks, marks[m].owner)
  IN IF src[1] = "Locus" THEN << terms[et].id >>
     ELSE InstTermMarks(terms, marks, src, terms[et].eq_class, <<>>)

RECURSIVE LocateTerm(_, _, _, _)
\* Equalizer::locate_term (equate.rs 937-977): the marker of the first class
\* that holds the term, 0 for None
LocateTerm(terms, marks, inst, tm) ==
  LET holds(et) ==
        IF tm[1] = "Locus" THEN terms[et].id = inst /\ terms[et].eq_class # <<>>
        ELSE \E i \in 1..Len(terms[et].eq_class) :
               LET t == marks[terms[et].eq_class[i]].term
               IN /\ t[1] = "Functor" /\ t[2] = tm[2]
                  /\ LET m1 == LocateTerm(terms, marks, inst, tm[3][1])
                     IN m1 # 0 /\ marks[m1].owner = marks[t[3][1]].owner
      found == {et \in 1..Len(terms) : holds(et)}
  IN IF found = {} THEN 0
     ELSE terms[CHOOSE et \in found : \A k \in found : et <= k].mark

\* the body of the loop over the reductions (equate.rs 1004-1024)
Reduce(st, et, red) ==
  Then(InstTerm(st.terms, st.marks, red.lhs, st.terms[et].mark), LAMBDA inst :
    IF inst = <<>> THEN st
    ELSE Then(LocateTerm(st.terms, st.marks, inst[1], red.rhs), LAMBDA m :
           IF m = 0 THEN [st EXCEPT !.panic = TRUE]
           ELSE UnionTerms(st.terms, st.marks, st.clash, et, st.marks[m].owner)
                  @@ [panic |-> FALSE]))

RECURSIVE ReduceAll(_, _, _)
ReduceAll(st, et, k) ==
  IF k > Len(Reductions) \/ st.unsat \/ st.panic THEN st
  ELSE Then(Reduce(st, et, Reductions[k]), LAMBDA st1 : ReduceAll(st1, et, k + 1))

RECURSIVE ProcessReductions(_, _, _)
\* Equalizer::process_reductions (equate.rs 998-1031)
ProcessReductions(st, infers, i) ==
  IF i > Len(infers) \/ st.unsat \/ st.panic THEN st
  ELSE IF infers[i] = 0 THEN ProcessReductions(st, infers, i + 1)
  ELSE LET et == st.marks[infers[i]].owner
       IN IF st.terms[et].eq_class = <<>> THEN ProcessReductions(st, infers, i + 1)
          ELSE Then(ReduceAll(st, et, 1),
                    LAMBDA st1 : ProcessReductions(st1, infers, i + 1))

\* The terms of the conjunct: the constants and functor terms over them
Consts == {Infer(n) : n \in 1..NConsts}
FunctorTerms ==
  {FunctorTerm(nr, c) : nr \in 1..2, c \in Consts}
    \cup {FunctorTerm(2, FunctorTerm(1, c)) : c \in Consts}
    \cup {FunctorTerm(3, Infer(1)), FunctorTerm(4, Infer(1))}

RECURSIVE SeqOfSet(_)
\* the atoms of the conjunct mention the terms in some fixed order
SeqOfSet(S) ==
  IF S = {} THEN <<>>
  ELSE LET t == CHOOSE x \in S : TRUE IN <<t>> \o SeqOfSet(S \ {t})

RECURSIVE SubsetsUpTo(_, _)
\* the subsets of S with at most n elements
SubsetsUpTo(S, n) ==
  IF n = 0 THEN {{}}
  ELSE Then(SubsetsUpTo(S, n - 1), LAMBDA P : P \cup {p \cup {x} : p \in P, x \in S})

\* The conjunct mentions the constants and at most MaxFunctors functor terms,
\* and holds at most MaxEqs positive equations between two of these terms
\* (given by their positions in the list of terms)
InitI ==
  /\ e_pc = "y"
  /\ \E T \in SubsetsUpTo(FunctorTerms, MaxFunctors) :
       \E E \in SubsetsUpTo(Pairs(NConsts + Cardinality(T)), MaxEqs) :
         e_input = [terms |-> SeqOfSet(Consts) \o SeqOfSet(T), eqs |-> E]
  /\ e_terms = <<>> /\ e_marks = <<>> /\ e_next = 0 /\ e_infers = <<>>
  /\ e_clash = FALSE /\ e_eqs = {} /\ e_bas = [pos |-> <<>>, neg |-> <<>>]
  /\ e_ineqs = <<>>
  /\ JParked /\ NParked /\ XParked /\ UParked /\ PParked

\* the class of an interned term
EqTermOf(eq, tm) == eq.marks[YTerm(eq, tm).mark].owner

\* The classification of the atoms (equate.rs 1388-1424): the terms are
\* interned and the equations collected; process_reductions (1510) then finds
\* every constant alone in its class
IdIntern ==
  /\ e_pc = "y"
  /\ \E eq \in {YTerms([terms |-> <<>>, marks |-> <<>>, next |-> 0, infers |-> <<>>],
                         e_input.terms)} :
     \E st \in {ProcessReductions([terms |-> eq.terms, marks |-> eq.marks,
                                    clash |-> FALSE, unsat |-> FALSE, panic |-> FALSE],
                                   eq.infers, 1)} :
        /\ e_terms' = st.terms
        /\ e_marks' = st.marks
        /\ e_clash' = st.clash
        /\ e_next' = eq.next
        /\ e_infers' = eq.infers
        /\ e_eqs' = UNION {EqualsInsert({}, EqTermOf(eq, e_input.terms[p[1]]),
                                          EqTermOf(eq, e_input.terms[p[2]])) :
                             p \in e_input.eqs}
        /\ e_pc' = IF st.panic THEN "panic" ELSE IF st.unsat THEN "unsat" ELSE "union"
  /\ UNCHANGED <<e_input, e_bas, e_ineqs, note>>

\* UnionEqualsForNonComplex (equate.rs 1517-1520)
IdUnion ==
  /\ e_pc = "union"
  /\ \E st \in {UnionAll([terms |-> e_terms, marks |-> e_marks, clash |-> e_clash,
                            unsat |-> FALSE], SortedPairs(e_eqs))} :
        /\ e_terms' = st.terms
        /\ e_marks' = st.marks
        /\ e_clash' = st.clash
        /\ e_pc' = IF st.unsat THEN "unsat" ELSE "identities"
  /\ e_eqs' = {}
  /\ UNCHANGED <<e_input, e_next, e_infers, e_bas, e_ineqs, note>>

\* the head of the loop of identities(true) (equate.rs 1057-1192): nothing
\* is pushed to to_union in this environment
IdentitiesHead ==
  /\ e_pc = "identities"
  /\ e_pc' = IF Arithmetic(e_marks, TRUE) THEN "unsat"
             ELSE IF ~e_clash THEN "done" ELSE "congruence"
  /\ UNCHANGED <<e_input, e_terms, e_marks, e_next, e_infers, e_clash, e_eqs, e_bas,
                 e_ineqs, note>>

\* one iteration of the inner loop (equate.rs 1194-1264)
IdentitiesCongruence ==
  /\ e_pc = "congruence"
  /\ \E st \in {UnionAll([terms |-> e_terms, marks |-> e_marks, clash |-> FALSE,
                            unsat |-> FALSE], ToUnion(e_marks))} :
        /\ e_terms' = st.terms
        /\ e_marks' = st.marks
        /\ e_clash' = st.clash
        /\ e_pc' = IF st.unsat THEN "unsat"
                   ELSE IF st.clash THEN "congruence" ELSE "reductions"
  /\ UNCHANGED <<e_input, e_next, e_infers, e_eqs, e_bas, e_ineqs, note>>

\* self.process_reductions()? at the end of the loop (equate.rs 1265)
IdentitiesReductions ==
  /\ e_pc = "reductions"
  /\ \E st \in {ProcessReductions([terms |-> e_terms, marks |-> e_marks,
                                     clash |-> e_clash, unsat |-> FALSE,
                                     panic |-> FALSE], e_infers, 1)} :
        /\ e_terms' = st.terms
        /\ e_marks' = st.marks
        /\ e_clash' = st.clash
        /\ e_pc' = IF st.panic THEN "panic" ELSE IF st.unsat THEN "unsat"
                   ELSE "identities"
  /\ UNCHANGED <<e_input, e_next, e_infers, e_eqs, e_bas, e_ineqs, note>>

NextI ==
  \/ IdIntern \/ IdUnion \/ IdentitiesHead \/ IdentitiesCongruence
  \/ IdentitiesReductions

SpecIdentities == InitI /\ [][NextI]_vars

\* the run is scheduled until it returns or aborts
SpecIdentitiesFair == SpecIdentities /\ WF_vars(NextI)

\* the run has returned or aborted
Ended == e_pc \in {"done", "unsat", "panic"}

\* Every scheduled run ends: each pass through the loops of identities that
\* does not end it has merged two classes.
IdentitiesEnds == <>Ended

\* C23: Equalizer.run terminates on every finite input with either Unsat or
\* a basis.
C23_RunReturns == <>(e_pc \in {"done", "unsat"})

\* the functor index holds a Succ term or a real arithmetic term
ArithmeticTerm ==
  \E m \in 1..Len(e_marks) :
    /\ e_marks[m].term[1] = "Functor"
    /\ IsSucc(e_marks[m].term[2]) \/ IsRealArith(e_marks[m].term[2])

\* C24: when the functor index of the conjunct holds a term of the Succ
\* requirement (or, arith being enabled, of a real arithmetic requirement),
\* identities returns Unsat whatever else the conjunct holds: the run never
\* gets past the head of identities, and never ends with a basis.
C24_ArithmeticGivesUp ==
  ArithmeticTerm => e_pc \in {"union", "identities", "unsat"}

\* Succ(c1) and c1 = c2 were interned, the classes of c1 and c2 united, and
\* identities returned Unsat
C24_Witness ==
  /\ e_pc = "unsat"
  /\ e_clash
  /\ \E m \in 1..Len(e_marks) :
       e_marks[m].term[1] = "Functor" /\ IsSucc(e_marks[m].term[2])
  /\ e_terms[2].eq_class = <<>>

\* process_reductions as the claim has it: a rule whose right-hand side is
\* not located merges nothing, and the loop goes on
ReduceSkipping(st, et, red) ==
  Then(InstTerm(st.terms, st.marks, red.lhs, st.terms[et].mark), LAMBDA inst :
    IF inst = <<>> THEN st
    ELSE Then(LocateTerm(st.terms, st.marks, inst[1], red.rhs), LAMBDA m :
           IF m = 0 THEN st
           ELSE UnionTerms(st.terms, st.marks, st.clash, et, st.marks[m].owner)
                  @@ [panic |-> FALSE]))

RECURSIVE ReduceAllSkipping(_, _, _)
ReduceAllSkipping(st, et, k) ==
  IF k > Len(Reductions) \/ st.unsat THEN st
  ELSE Then(ReduceSkipping(st, et, Reductions[k]),
            LAMBDA st1 : ReduceAllSkipping(st1, et, k + 1))

RECURSIVE ProcessReductionsSkipping(_, _, _)
ProcessReductionsSkipping(st, infers, i) ==
  IF i > Len(infers) \/ st.unsat THEN st
  ELSE IF infers[i] = 0 THEN ProcessReductionsSkipping(st, infers, i + 1)
  ELSE LET et == st.marks[infers[i]].owner
       IN IF st.terms[et].eq_class = <<>>
            THEN ProcessReductionsSkipping(st, infers, i + 1)
            ELSE Then(ReduceAllSkipping(st, et, 1),
                      LAMBDA st1 : ProcessReductionsSkipping(st1, infers, i + 1))

\* C29: when the left-hand side of a reduction instantiates against the
\* class of a constant and locate_term finds nothing for the right-hand side,
\* process_reductions merges nothing for that rule and goes on to the next
\* one, without aborting: the call leaves the classes that skipping the rule
\* leaves.
C29_UnlocatedRuleSkipped ==
  [][e_pc = "reductions" =>
       LET st == ProcessReductionsSkipping(
                   [terms |-> e_terms, marks |-> e_marks, clash |-> e_clash,
                    unsat |-> FALSE, panic |-> FALSE], e_infers, 1)
       IN /\ e_pc' # "panic"
          /\ e_terms' = st.terms /\ e_marks' = st.marks /\ e_clash' = st.clash]_vars

-----------------------------------------------------------------------------
(* open_quantifiers::<ConstId>: the constants the stripped variables become *)

\* The leading universals of x_f, stripped: the body and their number k
Stripped == StripForAlls(x_f[2], 1)

\* C21: opening a formula with k leading universals under opening polarity
\* pushes exactly k fixed variables and rewrites the i-th stripped bound
\* variable into Constant(n + i), n being fixed_var.len() before the call
\* (the index of the i-th newly pushed variable).
C21_BoundToPushedConstant ==
  (x_pc = "opened" /\ ~x_pos /\ x_f[1] = "forall") =>
     /\ x_fixed_var = Stripped.depth
     /\ x_out = SetVar(Stripped.f, Stripped.depth, 0)

-----------------------------------------------------------------------------
(* union_terms: which class survives *)

\* the class c has been merged into another: its class marker names another
MergedAway(c) == e_marks[e_terms[c].mark].owner # c

\* the eq_class of the larger class was emptied into the smaller one
MovedIntoSmaller(x, y) ==
  /\ e_terms'[Max(x, y)].eq_class = <<>>
  /\ e_terms'[Min(x, y)].eq_class
       = e_terms[Min(x, y)].eq_class \o e_terms[Max(x, y)].eq_class

\* both classes carry a number and the numbers differ
NumberClash(x, y) ==
  /\ e_terms[x].number # {} /\ e_terms[y].number # {}
  /\ e_terms[x].number # e_terms[y].number

\* a class is empty exactly when it was merged into another, and every term
\* mark is a member of exactly one live class, once
MarksPartitioned ==
  /\ \A c \in 1..Len(e_terms) : (e_terms[c].eq_class = <<>>) <=> MergedAway(c)
  /\ \A n \in 1..Len(e_terms) :
       Cardinality({<<c, i>> \in (1..Len(e_terms)) \X (1..Len(e_terms)) :
                      /\ i <= Len(e_terms[c].eq_class)
                      /\ e_terms[c].eq_class[i] = TermMark(n)}) = 1

\* the equation united in this step of the loop
United == CHOOSE q \in e_eqs : q \notin e_eqs'

\* C22 as stated: union_terms on two distinct classes always empties the class
\* with the larger id into the class with the smaller id; a call on two
\* members of one class changes nothing, the clash flag included; after any
\* sequence of unions the empty classes are the merged ones and every term
\* mark is in exactly one live class.
C22_UnionAlwaysIntoSmaller ==
  [][/\ (e_pc = "union" /\ e_eqs' # e_eqs) =>
          LET x == Canon(e_terms, e_marks, United[1])
              y == Canon(e_terms, e_marks, United[2])
          IN /\ x # y => MovedIntoSmaller(x, y)
             /\ x = y => UNCHANGED <<e_terms, e_marks, e_clash>>
     /\ MarksPartitioned']_vars

\* C22, amended: union_terms on two distinct classes empties the class with
\* the larger id into the class with the smaller id unless both carry
\* different numbers; then it returns Unsat with the clash flag set and both
\* eq_classes as they were.  The rest as stated.
C22_UnionIntoSmallerUnlessNumbersClash ==
  [][/\ (e_pc = "union" /\ e_eqs' # e_eqs) =>
          LET x == Canon(e_terms, e_marks, United[1])
              y == Canon(e_terms, e_marks, United[2])
          IN /\ (x # y /\ ~NumberClash(x, y)) => MovedIntoSmaller(x, y)
             /\ (x # y /\ NumberClash(x, y)) =>
                  /\ e_pc' = "unsat" /\ e_clash'
                  /\ e_terms'[x].eq_class = e_terms[x].eq_class
                  /\ e_terms'[y].eq_class = e_terms[y].eq_class
                  /\ e_marks' = e_marks
             /\ x = y => UNCHANGED <<e_terms, e_marks, e_clash>>
     /\ MarksPartitioned']_vars

\* Classes 2 and 3 were united, then 1 and 3 (3 already merged into 2, so 2
\* went into 1), and the call for 1 and 2 found them in one class
C22_Witness ==
  /\ e_pc = "done"
  /\ e_input.eqs = {<<1, 2>>, <<1, 3>>, <<2, 3>>}
  /\ e_terms[1].eq_class = <<TermMark(1), TermMark(2), TermMark(3)>>
  /\ e_terms[2].eq_class = <<>> /\ e_terms[3].eq_class = <<>>

-----------------------------------------------------------------------------
(* Conjunct::weaker_than on its own (checker.rs 384-389) *)

\* Conjunct(BTreeMap<AtomId, bool>) over the atoms 1..NLeaves, the empty one
\* included
Conjuncts == UNION {[D -> BOOLEAN] : D \in SUBSET (1..NLeaves)}

InitW ==
  /\ p_pc = "input" /\ p_ret = "none"
  /\ p_args \in [self : Conjuncts, other : Conjuncts]
  /\ JParked /\ NParked /\ EParked /\ XParked /\ UParked

WeakerThanCall ==
  /\ p_pc = "input"
  /\ p_pc' = "done"
  /\ p_ret' = WeakerThan(p_args.self, p_args.other)
  /\ UNCHANGED <<p_args, notp>>

NextW == WeakerThanCall

SpecWeakerThan == InitW /\ [][NextW]_vars

\* C25: Conjunct::weaker_than(self, other) is true exactly when every atom in
\* other is present in self with the same polarity.
C25_WeakerThanContainsOther ==
  p_pc = "done" =>
    (p_ret <=> \A a \in DOMAIN p_args.other :
                 a \in DOMAIN p_args.self /\ p_args.self[a] = p_args.other[a])

-----------------------------------------------------------------------------
(* The less_or_equal arms of the propagation loops (equate.rs 1627-1866) *)

\* The environment of this run: the requirements declare less_or_equal
\* (predicate 6) and the attributes positive, negative and zero; nothing is
\* redefined, so adjust_pred returns its input.  The conjunct has one atom,
\* a <= b, required or refuted, over two classes.
IsLessOrEqual(nr) == nr = 6
Reqs == [positive |-> 3, negative |-> 4, zero |-> 5]
\* Attr::new0(nr, pos)
New0(nr, pos) == <<nr, pos>>

\* Attrs::find0 on the supercluster of the class et
Find0(terms, et, nr, pos) ==
  terms[et].supercluster.ok /\ New0(nr, pos) \in terms[et].supercluster.set

\* `added |= cond && self.terms[et].supercluster.try_insert(.., attr)?` on the
\* state r = [terms, unsat, added] of a pass
InsertIf(r, cond, et, attr) ==
  IF r.unsat \/ ~cond THEN r
  ELSE LET t == TryInsert(r.terms[et].supercluster, attr)
       IN [terms |-> [r.terms EXCEPT ![et].supercluster = t.attrs],
           unsat |-> t.unsat, added |-> r.added \/ t.changed]

\* the body of the positive loop for a <= b (equate.rs 1636-1686)
LessOrEqualPos(terms, et1, et2) ==
  LET r0 == [terms |-> terms, unsat |-> FALSE, added |-> FALSE]
      pos1 == Find0(r0.terms, et1, Reqs.positive, TRUE)
      r1 == InsertIf(r0, pos1, et2, New0(Reqs.positive, TRUE))
      neg2 == ~r1.unsat /\ Find0(r1.terms, et2, Reqs.negative, TRUE)
      r2 == InsertIf(r1, neg2, et1, New0(Reqs.negative, TRUE))
      nonneg1 == ~r2.unsat /\ Find0(r2.terms, et1, Reqs.negative, FALSE)
      r3 == InsertIf(r2, nonneg1, et2, New0(Reqs.negative, FALSE))
      nonpos2 == ~r3.unsat /\ Find0(r3.terms, et2, Reqs.positive, FALSE)
      r4 == InsertIf(r3, nonpos2, et1, New0(Reqs.positive, FALSE))
      r5 == InsertIf(r4, nonneg1 /\ ~r4.unsat /\ Find0(r4.terms, et2, Reqs.zero, FALSE),
                     et2, New0(Reqs.positive, TRUE))
      r6 == InsertIf(r5, nonpos2 /\ ~r5.unsat /\ Find0(r5.terms, et1, Reqs.zero, FALSE),
                     et2, New0(Reqs.negative, TRUE))
      n1 == terms[et1].number
      n2 == terms[et1].number
  IN IF r6.unsat THEN r6
     ELSE [r6 EXCEPT !.unsat = n1 # {} /\ n2 # {}
                                 /\ \E a \in n1 : \E b \in n2 : a > b]

\* the body of the negative loop for not(a <= b) (equate.rs 1787-1811); the
\* positive basis is empty, so the match of 1844-1848 finds nothing
LessOrEqualNeg(terms, et1, et2) ==
  LET r0 == [terms |-> terms, unsat |-> FALSE, added |-> FALSE]
      r1 == InsertIf(r0, Find0(r0.terms, et1, Reqs.positive, FALSE),
                     et2, New0(Reqs.negative, TRUE))
      r2 == InsertIf(r1, ~r1.unsat /\ Find0(r1.terms, et2, Reqs.negative, FALSE),
                     et1, New0(Reqs.positive, TRUE))
      n1 == terms[et1].number
      n2 == terms[et1].number
  IN IF r2.unsat THEN r2
     ELSE [r2 EXCEPT !.unsat = n1 # {} /\ n2 # {}
                                 /\ \E a \in n1 : \E b \in n2 : a <= b]

\* the consistent clusters over positive, negative and zero
Superclusters ==
  {[ok |-> TRUE, set |-> S] :
     S \in {T \in SUBSET ({Reqs.positive, Reqs.negative, Reqs.zero} \X BOOLEAN) :
              \A a \in T : New0(a[1], ~a[2]) \notin T}}

\* two classes as new_eq_class makes them, then numbered and rounded up
TwoClasses == NewEqClass(NewEqClass([terms |-> <<>>, marks |-> <<>>, next |-> 0],
                                    <<"Infer", 1>>), <<"Infer", 2>>)

InitL ==
  /\ e_pc = "pos"
  /\ e_input \in [pos : BOOLEAN, arg1 : 1..2, arg2 : 1..2]
  /\ \E sc \in [1..2 -> Superclusters] : \E nb \in [1..2 -> Numbers] :
       e_terms = [c \in 1..2 |-> [TwoClasses.terms[c] EXCEPT !.supercluster = sc[c],
                                                             !.number = nb[c]]]
  /\ e_marks = TwoClasses.marks /\ e_next = TwoClasses.next
  /\ e_infers = <<e_terms[1].mark, e_terms[2].mark>>
  /\ e_clash = FALSE /\ e_eqs = {}
  /\ LET atom == <<"Pred", CHOOSE nr \in 1..6 : IsLessOrEqual(nr),
                   e_terms[e_input.arg1].mark, e_terms[e_input.arg2].mark>>
     IN e_bas = IF e_input.pos THEN [pos |-> <<atom>>, neg |-> <<>>]
                ELSE [pos |-> <<>>, neg |-> <<atom>>]
  /\ e_ineqs = <<>>
  /\ JParked /\ NParked /\ XParked /\ UParked /\ PParked

\* the classes of the two arguments of the atom
Et1 == e_marks[IF e_input.pos THEN e_bas.pos[1][3] ELSE e_bas.neg[1][3]].owner
Et2 == e_marks[IF e_input.pos THEN e_bas.pos[1][4] ELSE e_bas.neg[1][4]].owner

\* one pass of the positive loop (equate.rs 1627-1768)
LePosPass ==
  /\ e_pc = "pos"
  /\ \E r \in {IF e_bas.pos = <<>>
                 THEN [terms |-> e_terms, unsat |-> FALSE, added |-> FALSE]
                 ELSE LessOrEqualPos(e_terms, Et1, Et2)} :
       /\ e_terms' = r.terms
       /\ e_pc' = IF r.unsat THEN "unsat" ELSE IF r.added THEN "pos" ELSE "neg"
  /\ UNCHANGED <<e_input, e_marks, e_next, e_infers, e_clash, e_eqs, e_bas, e_ineqs, note>>

\* one pass of the negative loop (equate.rs 1772-1866)
LeNegPass ==
  /\ e_pc = "neg"
  /\ \E r \in {IF e_bas.neg = <<>>
                 THEN [terms |-> e_terms, unsat |-> FALSE, added |-> FALSE]
                 ELSE LessOrEqualNeg(e_terms, Et1, Et2)} :
       /\ e_terms' = r.terms
       /\ e_pc' = IF r.unsat THEN "unsat" ELSE IF r.added THEN "neg" ELSE "done"
  /\ UNCHANGED <<e_input, e_marks, e_next, e_infers, e_clash, e_eqs, e_bas, e_ineqs, note>>

NextL == LePosPass \/ LeNegPass

SpecLessOrEqual == InitL /\ [][NextL]_vars

\* C26: in the positive less_or_equal propagation, for an atom a <= b where
\* the class of b is non-positive and the class of a is non-zero, the
\* attribute negative is inserted into the supercluster of the class of a.
C26_NegativeIntoFirstArgument ==
  [][(/\ e_pc = "pos" /\ e_input.pos
      /\ Find0(e_terms, Et2, Reqs.positive, FALSE)
      /\ Find0(e_terms, Et1, Reqs.zero, FALSE)
      /\ e_pc' # "unsat")
       => Find0(e_terms', Et1, Reqs.negative, TRUE)]_vars

\* an Err(Unsat) that no try_insert raised: every supercluster is Consistent
NumericUnsat ==
  /\ e_pc \in {"pos", "neg"} /\ e_pc' = "unsat"
  /\ \A c \in 1..Len(e_terms) : e_terms'[c].supercluster.ok

\* C27: a positive atom a <= b raises Unsat on numeric grounds only when both
\* classes carry numbers and number(a) > number(b), a negative atom
\* not(a <= b) only when both classes carry numbers and number(a) <= number(b).
C27_NumbersOfBothArguments ==
  [][NumericUnsat =>
       /\ e_terms[Et1].number # {} /\ e_terms[Et2].number # {}
       /\ \E a \in e_terms[Et1].number : \E b \in e_terms[Et2].number :
            IF e_input.pos THEN a > b ELSE a <= b]_vars

-----------------------------------------------------------------------------
(* UnifyWithConst::unify_type (unify.rs 993-1081) *)

\* The environment of the call.  Mode 3 redefines mode 1 with one superfluous
\* argument; modes 1 and 2 and structure 1 are not redefinitions.  Modes 1, 2
\* and structure 1 take one argument, mode 3 takes two.  The types carry no
\* attributes, the free variable 1 has type `set`, and every class has `set`
\* in its ty_class, so unify_eq_class_types and unify_subset_attrs give True.
\* Terms are the free variable and the classes 1..MaxInst.
Redefines == [n \in 1..3 |-> IF n = 3 THEN [nr |-> 1, superfluous |-> 1]
                             ELSE [nr |-> n, superfluous |-> 0]]
FreeVar(n) == <<"FreeVar", n>>
EqClass(n) == <<"EqClass", n>>
UTerms == {FreeVar(1)} \cup {EqClass(c) : c \in 1..MaxInst}
UTypes ==
  {[kind |-> "Mode", nr |-> n, args |-> <<t>>] : n \in 1..2, t \in UTerms}
    \cup {[kind |-> "Mode", nr |-> 3, args |-> <<t1, t2>>] : t1 \in UTerms, t2 \in UTerms}
    \cup {[kind |-> "Struct", nr |-> 1, args |-> <<t>>] : t \in UTerms}

\* Type::adjust: the root constructor and the arguments past the superfluous
\* ones
Adjust(n, args) ==
  [nr |-> Redefines[n].nr, args |-> SubSeq(args, Redefines[n].superfluous + 1, Len(args))]

\* Dnf::mk_or on instantiations of the one free variable: two conjuncts are
\* comparable only when they are equal
InstMkOr(self, other) ==
  IF self.t THEN self
  ELSE IF other.t THEN DnfTrue
  ELSE DnfOr(self.or \o SelectSeq(other.or, LAMBDA c : \A i \in 1..Len(self.or) : self.or[i] # c))

\* Dnf::mk_and: the pairwise merges that send no variable to two classes
InstMkAnd(self, other) ==
  IF self.t THEN other
  ELSE IF other.t THEN self
  ELSE DnfOr(MergeAll(self.or, other.or))

\* Unify::unify_term(t, &Term::EqClass(ec)) (unify.rs 800-882)
UnifyTermClass(t, ec) ==
  IF t[1] = "FreeVar" THEN DnfOr(<<t[2] :> ec>>) ELSE MkBool(t[2] = ec)

RECURSIVE UnifyTermFrom(_, _, _, _)
\* the loop of UnifyWithConst::unify_term over the classes from ec on
UnifyTermFrom(t1, t2, ec, inst) ==
  IF ec > MaxInst THEN inst
  ELSE LET inst1 == UnifyTermClass(t1, ec)
       IN UnifyTermFrom(t1, t2, ec + 1,
            IF IsFalse(inst1) THEN inst
            ELSE InstMkOr(inst, InstMkAnd(inst1, UnifyTermClass(t2, ec))))

\* UnifyWithConst::unify_term (unify.rs 995-1006)
UnifyTermWithConst(t1, t2) == UnifyTermFrom(t1, t2, 1, DnfOr(<<>>))

RECURSIVE UnifyTermsFrom(_, _, _, _)
UnifyTermsFrom(tms1, tms2, i, dnfs) ==
  IF i > Len(tms1) THEN AndMany(dnfs)
  ELSE LET d == UnifyTermWithConst(tms1[i], tms2[i])
       IN IF d.t THEN UnifyTermsFrom(tms1, tms2, i + 1, dnfs)
          ELSE IF d.or = <<>> THEN DnfOr(<<>>)
          ELSE UnifyTermsFrom(tms1, tms2, i + 1, Append(dnfs, d.or))

\* the outcome of a call that a failed assert! aborted
Panicked == [panic |-> TRUE]

\* UnifyWithConst::unify_terms (unify.rs 1009-1020): Panicked when the assert
\* on the lengths fails
UnifyTermsWithConst(tms1, tms2) ==
  IF Len(tms1) # Len(tms2) THEN Panicked ELSE UnifyTermsFrom(tms1, tms2, 1, <<>>)

\* UnifyWithConst::unify_type (unify.rs 1063-1081)
UnifyType(ty1, ty2) ==
  IF ty1.kind = "Struct" /\ ty2.kind = "Struct" /\ ty1.nr = ty2.nr
    THEN UnifyTermsWithConst(ty1.args, ty2.args)
  ELSE IF ty1.kind = "Mode" /\ ty2.kind = "Mode"
    THEN LET a1 == Adjust(ty1.nr, ty1.args)
             a2 == Adjust(a1.nr, ty1.args)
         IN IF a1.nr = a2.nr THEN UnifyTermsWithConst(a1.args, a2.args)
            ELSE DnfOr(<<>>)
  ELSE DnfOr(<<>>)

InitT ==
  /\ p_pc = "input" /\ p_ret = "none"
  /\ p_args \in [ty1 : UTypes, ty2 : UTypes]
  /\ JParked /\ NParked /\ EParked /\ XParked /\ UParked

UnifyTypeCall ==
  /\ p_pc = "input"
  /\ p_pc' = "done"
  /\ p_ret' = UnifyType(p_args.ty1, p_args.ty2)
  /\ UNCHANGED <<p_args, notp>>

NextT == UnifyTypeCall

SpecUnifyType == InitT /\ [][NextT]_vars

\* C28: unify_type returns the false instantiation for two Mode types whose
\* adjusted mode constructors differ, and for equal adjusted constructors it
\* unifies the adjusted arguments of the first type with the adjusted
\* arguments of the second type.
C28_UnifiesFirstWithSecond ==
  (p_pc = "done" /\ p_args.ty1.kind = "Mode" /\ p_args.ty2.kind = "Mode") =>
    LET a1 == Adjust(p_args.ty1.nr, p_args.ty1.args)
        a2 == Adjust(p_args.ty2.nr, p_args.ty2.args)
    IN p_ret = IF a1.nr # a2.nr THEN DnfOr(<<>>)
               ELSE UnifyTermsWithConst(a1.args, a2.args)

-----------------------------------------------------------------------------
(* expand_flex from the literal numeral 0 *)

\* the conjuncts the instance of the scope for the term z contributes
InstanceConjuncts(z) ==
  AppendConjunctsTo(MaybeNeg(Inst0(x_f[3][2][2][2][3], z), ~x_pos), <<>>)

\* C30: expanding a FlexAnd whose left bound is the literal Numeral 0 and whose
\* right bound is a numeral R <= 100 completes without aborting and produces
\* the instantiated conjuncts for every i in 0..R, the one for i = 0 with a
\* term denoting zero in the place of the placeholder.
C30_LiteralZeroUnfolds ==
  (/\ x_bound_var = 0 /\ x_pc \in {"mk_and", "panicked", "done"}
   /\ x_f[2][1] = Numeral(0)
   /\ x_f[2][2][1] = "Numeral" /\ x_f[2][2][2] <= FlexLimit) =>
    /\ x_pc # "panicked"
    /\ \A i \in 0..x_f[2][2][2] :
         \E z \in (IF i = 0 THEN {Numeral(0)} \cup {Functor(nr) : nr \in {n \in 1..2 : IsZeroNumber(n)}}
                   ELSE {Numeral(i)}) :
           Range(InstanceConjuncts(z)) \subseteq Range(x_conjs)

=============================================================================
